---- MODULE Spec2Model ----
(***************************************************************************)
(* wayclip daemon: the history store (entries / content tables), the       *)
(* coordinator loop that consumes capture events and IPC events, the       *)
(* per-connection IPC tasks and the clipboard publisher.                   *)
(*                                                                         *)
(* Conventions.  Option<T> is a sequence of length 0 (None) or 1 (Some).   *)
(* Byte strings, previews and search texts are sequences of byte / code    *)
(* point values.  MIME types are opaque strings.  The wall clock is the    *)
(* variable now (Unix seconds) and never runs backwards.  A store          *)
(* statement may fail (I/O error, disk full); a handler run is given the   *)
(* name of the statement that fails, or "none".  The FTS5 module is taken  *)
(* to be present, so that the index over preview follows table entries.    *)
(* The handlers take the configuration as a value: its fields range over   *)
(* small numbers here, and the payloads are as short.                      *)
(***************************************************************************)
EXTENDS Integers, Sequences, FiniteSets, TLC

\* ------------------------------------------------------------------ bounds
MaxTime == 1            \* the clock runs over 0..MaxTime
MaxCaptures == 2        \* pipe reads the drain threads finish in a run of Spec
MaxRequests == 2        \* request lines read in a run of Spec
MaxPublishRequests == 2 \* request lines read in a run of SpecPublish
MaxReadRequests == 2    \* request lines read in a run of SpecRead
MaxIpcRequests == 3     \* request lines read in a run of SpecIpc
IpcCaptures == 1        \* pipe reads the drain threads finish in a run of SpecIpc
NumConns == 2           \* client connections
ClipboardCap == 1       \* capacity of the capture channel (100 in main.rs:41)
IpcCap == 1             \* capacity of the IPC channel (100 in main.rs:42)
MaxMaxEntries == 1      \* daemon.max_entries ranges over 0..MaxMaxEntries
MaxDays == 1            \* whole days the clock can jump ahead in a run of SpecAge
MaxOffers == 3          \* offer objects the compositor introduces in a run
MaxOffered == 3         \* MIME types of an offered list in a run of SpecMime

\* ------------------------------------------------------ program constants
PreviewChars == 200
PngHeaderLen == 24
DefaultLimit == 100
DefaultOffset == 0
SecondsPerDay == 86400  \* max_age_days counts days (config.rs:37)
Replacement == 65533    \* U+FFFD, what from_utf8_lossy yields for a bad byte

None == <<>>
Some(x) == <<x>>
IsSome(o) == Len(o) = 1
Unwrap(o) == o[1]
UnwrapOr(o, d) == IF IsSome(o) THEN o[1] ELSE d

Min(a, b) == IF a <= b THEN a ELSE b
Max(a, b) == IF a >= b THEN a ELSE b

\* ------------------------------------------------------------------ inputs
\* What a drain thread can read from its pipe, with the MIME type chosen for
\* the offer: 'a' as text and as an image, 'a ' as text, and nothing.
Selections ==
    { << <<97>>, "text/plain" >>, << <<97>>, "image/png" >>,
      << <<97, 32>>, "text/plain" >>, << <<>>, "text/plain" >> }
\* clipboard.ignore_mime_patterns of the configuration (its default)
IgnoreMimePatterns == { "x-kde-passwordManagerHint" }
\* (min_entry_size, max_entry_size) pairs of the configuration
SizeLimits == { <<1, 2>>, <<1, 1>>, <<2, 2>> }
Configs ==
    { [max_entries |-> m, min_entry_size |-> s[1], max_entry_size |-> s[2],
       max_age_days |-> 0, ignore_mime_patterns |-> IgnoreMimePatterns] :
        m \in 0..MaxMaxEntries, s \in SizeLimits }
Conns == 1..NumConns
\* ids a client may name: the ids the store can assign in a run
Ids == 1..MaxCaptures
DbFileSizes == { 4096, 8192 }

\* --------------------------------------------------------- pure functions
\* mime.starts_with("image/"), tabulated over the MIME strings of the model
StartsWithImage(mime) ==
    mime \in { "image/png", "image/jpeg", "image/webp", "image/gif",
               "image/bmp", "image/tiff" }

FromMime(mime) == IF StartsWithImage(mime) THEN "image" ELSE "text"

TEXT_MIME_PRIORITY ==
    << "text/plain;charset=utf-8", "text/plain", "UTF8_STRING", "STRING",
       "TEXT" >>

IMAGE_MIME_PRIORITY ==
    << "image/png", "image/jpeg", "image/webp", "image/gif", "image/bmp",
       "image/tiff" >>

\* offered.iter().any(|m| m == priority)
Offered(offered, m) == \E i \in 1..Len(offered) : offered[i] = m

\* one of the two for-loops of select_best_mime_type: the first member of
\* the priority list, from position k on, that is offered
RECURSIVE FirstOffered(_, _, _)
FirstOffered(priority, k, offered) ==
    IF k > Len(priority) THEN None
    ELSE IF Offered(offered, priority[k]) THEN Some(priority[k])
    ELSE FirstOffered(priority, k + 1, offered)

\* a selection that looks at the text list before the image list
select_best_mime_type_text_first(offered) ==
    LET text == FirstOffered(TEXT_MIME_PRIORITY, 1, offered)
        image == FirstOffered(IMAGE_MIME_PRIORITY, 1, offered)
    IN  IF text # None THEN text
        ELSE IF image # None THEN image
        ELSE IF offered = <<>> THEN None ELSE Some(Head(offered))

select_best_mime_type(offered) ==
    LET image == FirstOffered(IMAGE_MIME_PRIORITY, 1, offered)
        text == FirstOffered(TEXT_MIME_PRIORITY, 1, offered)
    IN  IF image # None THEN image
        ELSE IF text # None THEN text
        ELSE IF offered = <<>> THEN None ELSE Some(Head(offered))

\* SHA-256 in lowercase hex; distinct byte strings have distinct digests
Sha256Hex(bytes) == <<"sha256">> \o bytes

\* String::from_utf8_lossy on the inputs of the model: an ASCII byte is its
\* own code point, any other byte is replaced
Utf8Lossy(bytes) ==
    [i \in 1..Len(bytes) |-> IF bytes[i] < 128 THEN bytes[i] ELSE Replacement]

\* char::is_whitespace on the code points below 128
IsWhitespace(ch) == ch \in { 9, 10, 11, 12, 13, 32 }

RECURSIVE SplitWhitespace(_, _)
\* str::split_whitespace: the maximal runs of non-whitespace, in order
\* (cur is the run being read)
SplitWhitespace(text, cur) ==
    IF text = <<>> THEN (IF cur = <<>> THEN <<>> ELSE <<cur>>)
    ELSE IF IsWhitespace(Head(text))
         THEN (IF cur = <<>> THEN <<>> ELSE <<cur>>)
                  \o SplitWhitespace(Tail(text), <<>>)
         ELSE SplitWhitespace(Tail(text), Append(cur, Head(text)))

RECURSIVE JoinSpace(_)
\* [..].join(" ")
JoinSpace(words) ==
    IF words = <<>> THEN <<>>
    ELSE IF Len(words) = 1 THEN words[1]
    ELSE words[1] \o <<32>> \o JoinSpace(Tail(words))

RECURSIVE Decimal(_)
\* the decimal digits of n as code points
Decimal(n) == IF n < 10 THEN <<48 + n>> ELSE Append(Decimal(n \div 10), 48 + (n % 10))

\* Display of a signed integer
Display(n) == IF n < 0 THEN <<45>> \o Decimal(0 - n) ELSE Decimal(n)

U32FromBe(b, at) ==
    ((b[at] * 256 + b[at + 1]) * 256 + b[at + 2]) * 256 + b[at + 3]

\* "copied image"
CopiedImage == <<99, 111, 112, 105, 101, 100, 32, 105, 109, 97, 103, 101>>

GeneratePreview(content, mime_type, content_type) ==
    IF content_type = "text"
    THEN LET text == Utf8Lossy(content)
             preview == SubSeq(text, 1, Min(PreviewChars, Len(text)))
         IN JoinSpace(SplitWhitespace(preview, <<>>))
    ELSE IF mime_type = "image/png" /\ Len(content) >= PngHeaderLen
         THEN CopiedImage \o <<32, 40>> \o Decimal(U32FromBe(content, 17))
                  \o <<120>> \o Decimal(U32FromBe(content, 21)) \o <<41>>
         ELSE CopiedImage

\* (variant: the upper bound itself is refused)
TooLargeOrEqual(len, cfg) == len >= cfg.max_entry_size

\* admission tests of handle_clipboard_event
TooLarge(len, cfg) == len > cfg.max_entry_size
TooSmall(len, cfg) == len < cfg.min_entry_size

\* ------------------------------------------------------------ the store
\* (variant: use_count starts at 0 and counts the later uses only)
EntryRowUnused(id, hash, content_type, mime_type, preview, byte_size, t) ==
    [ id |-> id, content_hash |-> hash, content_type |-> content_type,
      mime_type |-> mime_type, preview |-> preview, byte_size |-> byte_size,
      created_at |-> t, last_used_at |-> t, use_count |-> 0, pinned |-> 0 ]

\* A row of table entries (schema.rs CREATE_ENTRIES_TABLE); pinned is 0 or 1.
EntryRow(id, hash, content_type, mime_type, preview, byte_size, t) ==
    [ id |-> id, content_hash |-> hash, content_type |-> content_type,
      mime_type |-> mime_type, preview |-> preview, byte_size |-> byte_size,
      created_at |-> t, last_used_at |-> t, use_count |-> 1, pinned |-> 0 ]

\* A row of table content (schema.rs CREATE_CONTENT_TABLE)
ContentRow(id, data) == [ entry_id |-> id, data |-> data ]

\* (variant: the hash looked up is never the hash stored, as when the two
\* are formatted differently)
ByHashMiss(E, hash) == {}

\* The rows the unique index on content_hash holds for a hash.  The lookup
\* WHERE content_hash = ? and the UNIQUE constraint both go through it.
ByHash(E, hash) == { e \in E : e.content_hash = hash }

ById(E, id) == { e \in E : e.id = id }

NonPinned(E) == { e \in E : e.pinned = 0 }

\* ON DELETE CASCADE: the content rows that survive the deletion of rows D
Cascade(C, D) == { c \in C : c.entry_id \notin { d.id : d \in D } }

\* find_by_hash: SELECT id FROM entries WHERE content_hash = ?1, optional
FindByHash(E, hash) ==
    IF ByHash(E, hash) = {} THEN None
    ELSE Some((CHOOSE e \in ByHash(E, hash) : TRUE).id)

\* (variant: the UPDATE sets last_used_at only)
TouchedNoCount(e, t) == [e EXCEPT !.last_used_at = t]

\* the UPDATE both touches run on the selected rows
Touched(e, t) == [e EXCEPT !.last_used_at = t, !.use_count = @ + 1]

\* touch_by_hash: UPDATE entries SET last_used_at, use_count WHERE content_hash
TouchByHash(E, hash, t) ==
    { IF e \in ByHash(E, hash) THEN Touched(e, t) ELSE e : e \in E }

\* (variant: the UPDATE has no WHERE clause)
TouchEntryAll(E, id, t) == { Touched(e, t) : e \in E }

\* touch_entry: UPDATE entries SET last_used_at, use_count WHERE id
TouchEntry(E, id, t) ==
    { IF e.id = id THEN Touched(e, t) ELSE e : e \in E }

\* (variant: the id is a plain rowid, one more than the largest id stored)
InsertEntryRowid(E, C, s, hash, content_type, mime_type, preview, content, t, fault) ==
    IF fault = "insert_entries" \/ ByHash(E, hash) # {}
    THEN [ ok |-> FALSE, entries |-> E, content |-> C, seq |-> s ]
    ELSE LET id == 1 + (IF E = {} THEN 0
                        ELSE CHOOSE m \in { e.id : e \in E } :
                                 \A e \in E : e.id <= m)
             E1 == E \cup { EntryRow(id, hash, content_type, mime_type,
                                     preview, Len(content), t) }
         IN IF fault = "insert_content" \/ \E c \in C : c.entry_id = id
            THEN [ ok |-> FALSE, entries |-> E1, content |-> C, seq |-> Max(s, id) ]
            ELSE [ ok |-> TRUE, entries |-> E1,
                   content |-> C \cup { ContentRow(id, content) }, seq |-> Max(s, id) ]

\* insert_entry: two statements with no transaction around them.  The first
\* is refused by the UNIQUE constraint when the hash is present; a failure of
\* the second leaves the row of the first in place.
InsertEntry(E, C, s, hash, content_type, mime_type, preview, content, t, fault) ==
    IF fault = "insert_entries" \/ ByHash(E, hash) # {}
    THEN [ ok |-> FALSE, entries |-> E, content |-> C, seq |-> s ]
    ELSE LET id == s + 1
             E1 == E \cup { EntryRow(id, hash, content_type, mime_type,
                                     preview, Len(content), t) }
         IN IF fault = "insert_content" \/ \E c \in C : c.entry_id = id
            THEN [ ok |-> FALSE, entries |-> E1, content |-> C, seq |-> id ]
            ELSE [ ok |-> TRUE, entries |-> E1,
                   content |-> C \cup { ContentRow(id, content) }, seq |-> id ]

\* get_content: inner join of entries and content on the id
GetContent(E, C, id) ==
    LET hits == { <<e.mime_type, c.data>> : e \in ById(E, id),
                                            c \in { x \in C : x.entry_id = id } }
    IN IF hits = {} THEN None ELSE Some(CHOOSE h \in hits : TRUE)

\* delete_entry: DELETE FROM entries WHERE id = ?1, content goes by cascade
DeleteEntry(E, C, id) ==
    [ found |-> ById(E, id) # {},
      entries |-> E \ ById(E, id),
      content |-> Cascade(C, ById(E, id)) ]

\* (variant: the DELETE has no WHERE clause)
ClearAll(E, C) == [ entries |-> {}, content |-> {} ]

\* clear_unpinned: DELETE FROM entries WHERE pinned = 0
ClearUnpinned(E, C) ==
    [ entries |-> E \ NonPinned(E), content |-> Cascade(C, NonPinned(E)) ]

\* (variant: the row is reported found only when the flag was already set)
SetPinnedMiscounted(E, id, pinned) ==
    [ found |-> \E e \in ById(E, id) : e.pinned = (IF pinned THEN 1 ELSE 0),
      entries |-> { IF e.id = id
                    THEN [e EXCEPT !.pinned = IF pinned THEN 1 ELSE 0]
                    ELSE e : e \in E } ]

\* (variant: the UPDATE flips the flag when asked to pin)
SetPinnedFlips(E, id, pinned) ==
    [ found |-> ById(E, id) # {},
      entries |-> { IF e.id = id
                    THEN [e EXCEPT !.pinned = IF pinned THEN 1 - @ ELSE 0]
                    ELSE e : e \in E } ]

\* set_pinned: UPDATE entries SET pinned = ?1 WHERE id = ?2
SetPinned(E, id, pinned) ==
    [ found |-> ById(E, id) # {},
      entries |-> { IF e.id = id
                    THEN [e EXCEPT !.pinned = IF pinned THEN 1 ELSE 0]
                    ELSE e : e \in E } ]

\* count_entries: SELECT COUNT(*) FROM entries
CountEntries(E) == Cardinality(E)

\* (variant: the subquery has no WHERE pinned = 0)
CleanupVictimsAnyRow(E, n) ==
    { D \in SUBSET E :
        /\ Cardinality(D) = Min(n, Cardinality(E))
        /\ \A d \in D, k \in E \ D : d.last_used_at <= k.last_used_at }

\* The sets of n rows that SELECT id FROM entries WHERE pinned = 0 ORDER BY
\* last_used_at ASC LIMIT n can return: the query fixes no order among rows
\* of equal last_used_at.
CleanupVictims(E, n) ==
    { D \in SUBSET NonPinned(E) :
        /\ Cardinality(D) = n
        /\ \A d \in D, k \in NonPinned(E) \ D : d.last_used_at <= k.last_used_at }

\* (variant: the pass keeps one row more than max_entries)
CleanupKeepsOneMore(E, C, max_entries, fault) ==
    IF fault = "cleanup_count"
    THEN { [ ok |-> FALSE, entries |-> E, content |-> C ] }
    ELSE LET count == Cardinality(NonPinned(E))
         IN IF count > max_entries + 1
            THEN IF fault = "cleanup_delete"
                 THEN { [ ok |-> FALSE, entries |-> E, content |-> C ] }
                 ELSE { [ ok |-> TRUE, entries |-> E \ D, content |-> Cascade(C, D) ] :
                          D \in CleanupVictims(E, count - max_entries - 1) }
            ELSE { [ ok |-> TRUE, entries |-> E, content |-> C ] }

\* (variant: the pass counts the rows and deletes none)
CleanupCountsOnly(E, C, max_entries, fault) ==
    IF fault = "cleanup_count"
    THEN { [ ok |-> FALSE, entries |-> E, content |-> C ] }
    ELSE { [ ok |-> TRUE, entries |-> E, content |-> C ] }

\* cleanup(max_entries): the results the eviction pass can have
Cleanup(E, C, max_entries, fault) ==
    IF fault = "cleanup_count"
    THEN { [ ok |-> FALSE, entries |-> E, content |-> C ] }
    ELSE LET count == Cardinality(NonPinned(E))
         IN IF count > max_entries
            THEN IF fault = "cleanup_delete"
                 THEN { [ ok |-> FALSE, entries |-> E, content |-> C ] }
                 ELSE { [ ok |-> TRUE, entries |-> E \ D, content |-> Cascade(C, D) ] :
                          D \in CleanupVictims(E, count - max_entries) }
            ELSE { [ ok |-> TRUE, entries |-> E, content |-> C ] }

\* ------------------------------------------------------- history listing
\* row_to_entry: the HistoryEntry of a row (thumbnail is always None)
RowToEntry(e) ==
    [ id |-> e.id, content_type |-> e.content_type, mime_type |-> e.mime_type,
      preview |-> e.preview, byte_size |-> e.byte_size,
      created_at |-> e.created_at, pinned |-> e.pinned # 0, thumbnail |-> None ]

RECURSIVE OrderByCreatedDesc(_)
\* The sequences ORDER BY created_at DESC can list the rows S in: the query
\* fixes no order among rows of equal created_at.
OrderByCreatedDesc(S) ==
    IF S = {} THEN { <<>> }
    ELSE UNION { { <<e>> \o rest : rest \in OrderByCreatedDesc(S \ {e}) } :
                   e \in { x \in S : \A y \in S : x.created_at >= y.created_at } }

\* (variant: a limit of 0 is taken as no limit)
LimitOffsetZeroIsAll(rows, limit, offset) ==
    SubSeq(rows, offset + 1,
           IF limit = 0 THEN Len(rows) ELSE Min(Len(rows), offset + limit))

\* LIMIT ?1 OFFSET ?2 on a result list
LimitOffset(rows, limit, offset) ==
    SubSeq(rows, offset + 1, Min(Len(rows), offset + limit))

\* FTS5 (unicode61 tokenizer) on the code points of the model: a token is a
\* maximal run of letters and digits, folded to lower case
IsTokenChar(ch) == (ch \in 48..57) \/ (ch \in 65..90) \/ (ch \in 97..122) \/ ch >= 128
Fold(ch) == IF ch \in 65..90 THEN ch + 32 ELSE ch

RECURSIVE Tokens(_, _)
Tokens(text, cur) ==
    IF text = <<>> THEN (IF cur = <<>> THEN <<>> ELSE <<cur>>)
    ELSE IF IsTokenChar(Head(text))
         THEN Tokens(Tail(text), Append(cur, Fold(Head(text))))
         ELSE (IF cur = <<>> THEN <<>> ELSE <<cur>>) \o Tokens(Tail(text), <<>>)

IsPrefix(p, w) == Len(p) <= Len(w) /\ SubSeq(w, 1, Len(p)) = p

\* The terms of the query format!("{}*", search.replace('"', "\"\"")): the
\* whitespace-separated barewords of search, the last one a prefix term.  A
\* query with no term, or with a character that is not part of a bareword,
\* is a syntax error of MATCH.
QueryTerms(search) == SplitWhitespace(search, <<>>)
QueryOk(search) ==
    /\ QueryTerms(search) # <<>>
    /\ \A i \in 1..Len(search) : IsTokenChar(search[i]) \/ IsWhitespace(search[i])

FtsMatch(preview, search) ==
    LET terms == QueryTerms(search)
        toks == Tokens(preview, <<>>)
        fold(w) == [i \in 1..Len(w) |-> Fold(w[i])]
    IN /\ \A i \in 1..(Len(terms) - 1) : \E j \in 1..Len(toks) : toks[j] = fold(terms[i])
       /\ \E j \in 1..Len(toks) : IsPrefix(fold(terms[Len(terms)]), toks[j])

\* get_history: the results (entries, total) the listing can have.  On the
\* search path a failing COUNT is replaced by 0 and a failing row is skipped.
GetHistory(E, limit, offset, search, fault) ==
    LET lim == UnwrapOr(limit, DefaultLimit)
        off == UnwrapOr(offset, DefaultOffset)
    IN IF IsSome(search)
       THEN LET bad == ~QueryOk(Unwrap(search))
                hits == IF bad THEN {} ELSE { e \in E : FtsMatch(e.preview, Unwrap(search)) }
                total == IF bad \/ fault = "count" THEN 0 ELSE Cardinality(hits)
            IN IF fault = "select"
               THEN { [ ok |-> FALSE, entries |-> <<>>, total |-> 0 ] }
               ELSE { [ ok |-> TRUE,
                        entries |-> LimitOffset([i \in 1..Len(rows) |-> RowToEntry(rows[i])], lim, off),
                        total |-> total ] : rows \in OrderByCreatedDesc(hits) }
       ELSE IF fault \in { "count", "select" }
            THEN { [ ok |-> FALSE, entries |-> <<>>, total |-> 0 ] }
            ELSE { [ ok |-> TRUE,
                     entries |-> LimitOffset([i \in 1..Len(rows) |-> RowToEntry(rows[i])], lim, off),
                     total |-> Cardinality(E) ] : rows \in OrderByCreatedDesc(E) }

\* ------------------------------------------------------------ responses
\* base64 STANDARD alphabet with padding, as code points
B64Char(i) ==
    IF i < 26 THEN 65 + i
    ELSE IF i < 52 THEN 97 + (i - 26)
    ELSE IF i < 62 THEN 48 + (i - 52)
    ELSE IF i = 62 THEN 43 ELSE 47

RECURSIVE Base64(_)
Base64(b) ==
    IF Len(b) = 0 THEN <<>>
    ELSE IF Len(b) = 1
         THEN << B64Char(b[1] \div 4), B64Char((b[1] % 4) * 16), 61, 61 >>
    ELSE IF Len(b) = 2
         THEN << B64Char(b[1] \div 4), B64Char((b[1] % 4) * 16 + b[2] \div 16),
                 B64Char((b[2] % 16) * 4), 61 >>
    ELSE << B64Char(b[1] \div 4), B64Char((b[1] % 4) * 16 + b[2] \div 16),
            B64Char((b[2] % 16) * 4 + b[3] \div 64), B64Char(b[3] % 64) >>
             \o Base64(SubSeq(b, 4, Len(b)))

\* the version string of the package, fixed at build time
VERSION == "CARGO_PKG_VERSION"

\* A Response; the fields a variant does not have keep their zero value.  The
\* message of an error that comes from the store is not modelled (empty).
NoResponse ==
    [ type |-> "", code |-> "", id |-> 0, mime_type |-> "", data |-> <<>>,
      entries |-> <<>>, total_count |-> 0, entry_count |-> 0,
      database_size_bytes |-> 0, message |-> <<>>, version |-> "" ]
RespOk == [NoResponse EXCEPT !.type = "ok"]
RespPong == [NoResponse EXCEPT !.type = "pong"]
RespError(code) == [NoResponse EXCEPT !.type = "error", !.code = code]
\* Response::not_found: the message is format!("Entry {} not found", id)
RespNotFound(id) ==
    [NoResponse EXCEPT !.type = "error", !.code = "not_found",
                       !.message = <<69, 110, 116, 114, 121, 32>> \o Display(id)
                                     \o <<32, 110, 111, 116, 32, 102, 111, 117, 110, 100>>]
RespContent(id, mime_type, data) ==
    [NoResponse EXCEPT !.type = "content", !.id = id, !.mime_type = mime_type,
                       !.data = Base64(data)]
RespHistory(es, total) ==
    [NoResponse EXCEPT !.type = "history", !.entries = es, !.total_count = total]
RespStatus(count, size) ==
    [NoResponse EXCEPT !.type = "status", !.version = VERSION,
                       !.entry_count = count, !.database_size_bytes = size]

\* ------------------------------------------------------------- requests
RequestTypes ==
    { "get_history", "get_content", "set_clipboard", "delete_entry",
      "clear_history", "set_pinned", "get_status", "ping" }

\* A line a client writes: wf says whether it is a JSON object at all, type
\* is its "type" field, the other fields are those of the request variants.
Line(wf, type, id, pinned) ==
    [ wf |-> wf, type |-> type, id |-> id, pinned |-> pinned,
      limit |-> None, offset |-> None, search |-> None ]

\* (variant: the "type" field is not checked against the variants)
DecodeRequestAnyType(line) ==
    IF line.wf
    THEN Some([ type |-> line.type, id |-> line.id, pinned |-> line.pinned,
                limit |-> line.limit, offset |-> line.offset,
                search |-> line.search ])
    ELSE None

\* decode_request: Some(request), or None for a decode error
DecodeRequest(line) ==
    IF line.wf /\ line.type \in RequestTypes
    THEN Some([ type |-> line.type, id |-> line.id, pinned |-> line.pinned,
                limit |-> line.limit, offset |-> line.offset,
                search |-> line.search ])
    ELSE None

\* ---------------------------------------------------------------- codec
\* serde_json on the messages of the protocol.  A JSON object is the
\* sequence of its members in the order they are written; a member is its
\* key with the text of its value: a name (a type tag, an error code, the
\* version, or one of the MIME types of this model; none holds a character
\* that is escaped),
\* a string (the escaped text between the quotes), a number (its digits), a
\* boolean, or an array of objects.  The split of the text into members is
\* taken as exact; the texts of the values are converted as below.
MName(key, name) == [ key |-> key, kind |-> "name", name |-> name, tok |-> <<>>, arr |-> <<>> ]

RECURSIVE Escape(_)
\* the escapes of a JSON string: the quote, the backslash and the newline
Escape(text) ==
    IF text = <<>> THEN <<>>
    ELSE (CASE Head(text) = 34 -> <<92, 34>>
            [] Head(text) = 92 -> <<92, 92>>
            [] Head(text) = 10 -> <<92, 110>>
            [] OTHER -> <<Head(text)>>) \o Escape(Tail(text))

RECURSIVE Unescape(_)
Unescape(tok) ==
    IF tok = <<>> THEN <<>>
    ELSE IF Head(tok) = 92 /\ Len(tok) >= 2
         THEN << IF tok[2] = 110 THEN 10 ELSE tok[2] >> \o Unescape(SubSeq(tok, 3, Len(tok)))
         ELSE <<Head(tok)>> \o Unescape(Tail(tok))

MStr(key, text) == [ key |-> key, kind |-> "str", name |-> "", tok |-> Escape(text), arr |-> <<>> ]
MNum(key, n) == [ key |-> key, kind |-> "num", name |-> "", tok |-> Display(n), arr |-> <<>> ]

JsonTrue == <<116, 114, 117, 101>>
JsonFalse == <<102, 97, 108, 115, 101>>
MBool(key, b) ==
    [ key |-> key, kind |-> "bool", name |-> "",
      tok |-> IF b THEN JsonTrue ELSE JsonFalse, arr |-> <<>> ]
MArr(key, objs) == [ key |-> key, kind |-> "arr", name |-> "", tok |-> <<>>, arr |-> objs ]

RECURSIVE ParseDigits(_, _)
ParseDigits(tok, acc) ==
    IF tok = <<>> THEN acc ELSE ParseDigits(Tail(tok), 10 * acc + (Head(tok) - 48))
\* (variant: the sign is not read)
ParseNumberUnsigned(tok) ==
    IF tok # <<>> /\ Head(tok) = 45 THEN ParseDigits(Tail(tok), 0)
    ELSE ParseDigits(tok, 0)

\* the integer a number text stands for
ParseNumber(tok) ==
    IF tok # <<>> /\ Head(tok) = 45 THEN 0 - ParseDigits(Tail(tok), 0)
    ELSE ParseDigits(tok, 0)

\* the member of an object with a key, optional
Lookup(obj, key) ==
    LET hits == { i \in 1..Len(obj) : obj[i].key = key }
    IN IF hits = {} THEN None ELSE Some(obj[CHOOSE i \in hits : TRUE])
Has(obj, key, kind) == IsSome(Lookup(obj, key)) /\ Unwrap(Lookup(obj, key)).kind = kind

\* Serialize of Request: the tag, then the fields of the variant; an absent
\* optional field is skipped (skip_serializing_if = "Option::is_none").
SerializeRequest(r) ==
    <<MName("type", r.type)>> \o
    (CASE r.type = "get_history" ->
            (IF IsSome(r.limit) THEN <<MNum("limit", Unwrap(r.limit))>> ELSE <<>>)
              \o (IF IsSome(r.offset) THEN <<MNum("offset", Unwrap(r.offset))>> ELSE <<>>)
              \o (IF IsSome(r.search) THEN <<MStr("search", Unwrap(r.search))>> ELSE <<>>)
       [] r.type \in { "get_content", "set_clipboard", "delete_entry" } ->
            <<MNum("id", r.id)>>
       [] r.type = "set_pinned" -> <<MNum("id", r.id), MBool("pinned", r.pinned)>>
       [] OTHER -> <<>>)

\* The line a JSON object is as a request: its tag and the fields of the
\* variant the tag names; a missing Option field is None, a missing or
\* mistyped field of another kind makes the line ill-formed, a member the
\* variant does not have is ignored.
ParseLine(obj) ==
    LET type == IF Has(obj, "type", "name") THEN Unwrap(Lookup(obj, "type")).name ELSE ""
        num(key) == ParseNumber(Unwrap(Lookup(obj, key)).tok)
        opt(key, kind) == ~IsSome(Lookup(obj, key)) \/ Has(obj, key, kind)
        with_id == type \in { "get_content", "set_clipboard", "delete_entry", "set_pinned" }
        listing == type = "get_history"
        wf == /\ Has(obj, "type", "name")
              /\ with_id => Has(obj, "id", "num")
              /\ type = "set_pinned" => Has(obj, "pinned", "bool")
              /\ listing => (opt("limit", "num") /\ opt("offset", "num") /\ opt("search", "str"))
    IN [ wf |-> wf, type |-> type,
         id |-> IF with_id /\ Has(obj, "id", "num") THEN num("id") ELSE 0,
         pinned |-> /\ type = "set_pinned"
                    /\ Has(obj, "pinned", "bool")
                    /\ Unwrap(Lookup(obj, "pinned")).tok = JsonTrue,
         limit |-> IF listing /\ Has(obj, "limit", "num") THEN Some(num("limit")) ELSE None,
         offset |-> IF listing /\ Has(obj, "offset", "num") THEN Some(num("offset")) ELSE None,
         search |-> IF listing /\ Has(obj, "search", "str")
                    THEN Some(Unescape(Unwrap(Lookup(obj, "search")).tok)) ELSE None ]

\* Serialize of HistoryEntry: thumbnail is skipped when it is None
SerializeEntry(h) ==
    << MNum("id", h.id), MName("content_type", h.content_type),
       MName("mime_type", h.mime_type), MStr("preview", h.preview),
       MNum("byte_size", h.byte_size), MNum("created_at", h.created_at),
       MBool("pinned", h.pinned) >>
      \o (IF IsSome(h.thumbnail) THEN <<MStr("thumbnail", Unwrap(h.thumbnail))>> ELSE <<>>)

\* Deserialize of HistoryEntry, optional
DeserializeEntry(obj) ==
    IF /\ Has(obj, "id", "num") /\ Has(obj, "content_type", "name")
       /\ Has(obj, "mime_type", "name") /\ Has(obj, "preview", "str")
       /\ Has(obj, "byte_size", "num") /\ Has(obj, "created_at", "num")
       /\ Has(obj, "pinned", "bool")
       /\ Unwrap(Lookup(obj, "content_type")).name \in { "text", "image" }
       /\ (~IsSome(Lookup(obj, "thumbnail")) \/ Has(obj, "thumbnail", "str"))
    THEN Some([ id |-> ParseNumber(Unwrap(Lookup(obj, "id")).tok),
                content_type |-> Unwrap(Lookup(obj, "content_type")).name,
                mime_type |-> Unwrap(Lookup(obj, "mime_type")).name,
                preview |-> Unescape(Unwrap(Lookup(obj, "preview")).tok),
                byte_size |-> ParseNumber(Unwrap(Lookup(obj, "byte_size")).tok),
                created_at |-> ParseNumber(Unwrap(Lookup(obj, "created_at")).tok),
                pinned |-> Unwrap(Lookup(obj, "pinned")).tok = JsonTrue,
                thumbnail |-> IF Has(obj, "thumbnail", "str")
                              THEN Some(Unescape(Unwrap(Lookup(obj, "thumbnail")).tok))
                              ELSE None ])
    ELSE None

ErrorCodes ==
    { "not_found", "database_error", "clipboard_error", "invalid_request",
      "internal_error" }

\* Serialize of Response: the tag, then the fields of the variant
SerializeResponse(r) ==
    <<MName("type", r.type)>> \o
    (CASE r.type = "history" ->
            << MArr("entries", [i \in 1..Len(r.entries) |-> SerializeEntry(r.entries[i])]),
               MNum("total_count", r.total_count) >>
       [] r.type = "content" ->
            << MNum("id", r.id), MName("mime_type", r.mime_type), MStr("data", r.data) >>
       [] r.type = "error" -> << MName("code", r.code), MStr("message", r.message) >>
       [] r.type = "status" ->
            << MName("version", r.version), MNum("entry_count", r.entry_count),
               MNum("database_size_bytes", r.database_size_bytes) >>
       [] OTHER -> <<>>)

\* Deserialize of Response, optional
DeserializeResponse(obj) ==
    LET type == IF Has(obj, "type", "name") THEN Unwrap(Lookup(obj, "type")).name ELSE ""
        num(key) == ParseNumber(Unwrap(Lookup(obj, key)).tok)
        name(key) == Unwrap(Lookup(obj, key)).name
        text(key) == Unescape(Unwrap(Lookup(obj, key)).tok)
        items == Unwrap(Lookup(obj, "entries")).arr
    IN CASE type \in { "ok", "pong" } -> Some([NoResponse EXCEPT !.type = type])
         [] type = "history" ->
              IF /\ Has(obj, "entries", "arr") /\ Has(obj, "total_count", "num")
                 /\ \A i \in 1..Len(items) : IsSome(DeserializeEntry(items[i]))
              THEN Some([NoResponse EXCEPT
                           !.type = type,
                           !.entries = [i \in 1..Len(items) |-> Unwrap(DeserializeEntry(items[i]))],
                           !.total_count = num("total_count")])
              ELSE None
         [] type = "content" ->
              IF Has(obj, "id", "num") /\ Has(obj, "mime_type", "name") /\ Has(obj, "data", "str")
              THEN Some([NoResponse EXCEPT !.type = type, !.id = num("id"),
                                           !.mime_type = name("mime_type"),
                                           !.data = text("data")])
              ELSE None
         [] type = "error" ->
              IF /\ Has(obj, "code", "name") /\ Has(obj, "message", "str")
                 /\ name("code") \in ErrorCodes
              THEN Some([NoResponse EXCEPT !.type = type, !.code = name("code"),
                                           !.message = text("message")])
              ELSE None
         [] type = "status" ->
              IF /\ Has(obj, "version", "name") /\ Has(obj, "entry_count", "num")
                 /\ Has(obj, "database_size_bytes", "num")
              THEN Some([NoResponse EXCEPT
                           !.type = type, !.version = name("version"),
                           !.entry_count = num("entry_count"),
                           !.database_size_bytes = num("database_size_bytes")])
              ELSE None
         [] OTHER -> None

\* A record on the wire: the JSON text of a message (its object) and the
\* bytes that follow it
NoRecord == [ json |-> <<>>, tail |-> <<>> ]
\* encode_request / encode_response: to_vec, then push(b'\n')
encode_request(request) == [ json |-> SerializeRequest(request), tail |-> <<10>> ]
encode_response(response) == [ json |-> SerializeResponse(response), tail |-> <<10>> ]
\* decode_request / decode_response: from_slice, which allows white space
\* after the value and nothing else
decode_request(record) ==
    IF \A i \in 1..Len(record.tail) : IsWhitespace(record.tail[i])
    THEN DecodeRequest(ParseLine(record.json)) ELSE None
decode_response(record) ==
    IF \A i \in 1..Len(record.tail) : IsWhitespace(record.tail[i])
    THEN DeserializeResponse(record.json) ELSE None

\* -------------------------------------------------------------- state
VARIABLES
    entries,        \* rows of table entries
    content,        \* rows of table content
    seq,            \* AUTOINCREMENT sequence of entries: the largest id ever assigned
    now,            \* wall clock, Unix seconds
    config,         \* the Config the daemon loaded
    clipboard_rx,   \* capture channel: ClipboardEvents not yet received
    ipc_rx,         \* IPC channel: IpcEvents not yet received
    conn,           \* per connection: the position of its handle_client task
                    \* and the last response it wrote to the socket
    oneshot,        \* replies sent on response_tx and not yet received
    wl_copy,        \* the last run of the publisher (what it was given, how it
                    \* ended) and the number of runs
    running,        \* the coordinator loop has not left on ctrl_c
    trace,          \* the coordinator's last step: the channel it took the event
                    \* from, the branch of handle_clipboard_event, whether a
                    \* store call failed
    budget,         \* pipe reads and request lines the environment has left
    codec,          \* a message on its way through the codec: the message,
                    \* the record it was encoded to, the message decoded back
    monitor,        \* the capture thread: where it is, why it ended, the
                    \* offers and selections the compositor announced so far
                    \* and which of them have a drain thread still running
    server,         \* the task of ipc::serve: starting, listening or failed
    exit_status,    \* exit status of the process, None while it is alive
    coord           \* the coordinator task: at select!, or the statement of
                    \* handle_clipboard_event it runs next and the event in hand

vars == << entries, content, seq, now, config, clipboard_rx, ipc_rx, conn,
           oneshot, wl_copy, running, trace, budget, codec, monitor, server,
           exit_status, coord >>

NoTrace == [ src |-> "", op |-> "", fault |-> FALSE ]
NoEvent == [ content |-> <<>>, mime_type |-> "", source_app |-> <<>> ]
\* the coordinator is at the select! of its loop
Select == [ pc |-> "select", event |-> NoEvent ]

\* (variant: each handler is a task of its own, started whenever an event
\* is there)
AtSelectAnywhere == TRUE

\* the coordinator polls the branches of select! only when no handler is
\* running: the handlers are awaited in the body of the loop
AtSelect == coord.pc = "select"
NoRun == [ n |-> 0, mime_type |-> "", data |-> <<>>, status |-> "" ]
NoRequest ==
    [ type |-> "", id |-> 0, pinned |-> FALSE, limit |-> None, offset |-> None,
      search |-> None ]
NoCodec ==
    [ phase |-> "idle", of |-> "", request |-> NoRequest, response |-> NoResponse,
      record |-> NoRecord, request_back |-> None, response_back |-> None ]

\* the capture thread in its dispatch loop, no selection announced yet
\* current_offer and offered_mime_types are the fields of ClipboardState;
\* offers are the offer objects the compositor has introduced (what each
\* is for, the MIME types it advertises, the bytes its owner writes), sent
\* counts the offer events of the newest one, named the offers a selection
\* event has named, received the receive requests issued, last_event the
\* device event dispatched last, with the offer it names and the message
\* its handler logs, and finished whether the device is gone
Dispatching ==
    [ st |-> "dispatching", err |-> "", sels |-> <<>>, drains |-> {},
      current_offer |-> <<>>, offered_mime_types |-> <<>>, offers |-> <<>>,
      sent |-> 0, named |-> {}, received |-> <<>>,
      last_event |-> [ event |-> "", id |-> <<>>, log |-> "" ],
      finished |-> FALSE ]

\* ------------------------------------------------------------ the codec
\* a peer encodes the message it sends
CodecEncode ==
    /\ codec.phase = "new"
    /\ codec' = [codec EXCEPT
                   !.phase = "encoded",
                   !.record = IF codec.of = "request"
                              THEN encode_request(codec.request)
                              ELSE encode_response(codec.response)]
    /\ UNCHANGED << coord, entries, content, seq, now, config,
                    monitor, server, exit_status, clipboard_rx, ipc_rx,
                    conn, oneshot, wl_copy, running, trace, budget >>

\* the other peer decodes the record it received
CodecDecode ==
    /\ codec.phase = "encoded"
    /\ codec' = [codec EXCEPT
                   !.phase = "decoded",
                   !.request_back = IF codec.of = "request"
                                    THEN decode_request(codec.record) ELSE None,
                   !.response_back = IF codec.of = "response"
                                     THEN decode_response(codec.record) ELSE None]
    /\ UNCHANGED << coord, entries, content, seq, now, config,
                    monitor, server, exit_status, clipboard_rx, ipc_rx,
                    conn, oneshot, wl_copy, running, trace, budget >>

\* ------------------------------------------------------------ the clock
Tick ==
    /\ now < MaxTime
    /\ now' = now + 1
    /\ UNCHANGED << coord, entries, content, seq, config, codec,
                    monitor, server, exit_status, clipboard_rx, ipc_rx, conn,
                    oneshot, wl_copy, running, trace, budget >>

\* a day passes between two steps of the daemon
TickDay ==
    /\ now < MaxDays * SecondsPerDay
    /\ now' = now + SecondsPerDay
    /\ UNCHANGED << coord, entries, content, seq, config, codec, monitor, server,
                    exit_status, clipboard_rx, ipc_rx, conn, oneshot, wl_copy,
                    running, trace, budget >>

\* ------------------------------------------------------- capture events
\* The drain thread of receive_clipboard: read the pipe to its end, give up
\* on empty content, else blocking_send the event (waits while the channel
\* is full).
DrainSend(bytes, mime_type) ==
    /\ running
    /\ budget.captures > 0
    /\ budget' = [budget EXCEPT !.captures = @ - 1]
    /\ IF bytes = <<>>
       THEN UNCHANGED clipboard_rx
       ELSE /\ Len(clipboard_rx) < ClipboardCap
            /\ clipboard_rx' = Append(clipboard_rx,
                   [ content |-> bytes, mime_type |-> mime_type, source_app |-> None ])
    /\ UNCHANGED << coord, entries, content, seq, now, config, codec,
                    monitor, server, exit_status, ipc_rx, conn, oneshot,
                    wl_copy, running, trace >>

\* The user keeps copying: the bound on the pipe reads of a run is lifted
\* again, so that capture events never stop arriving.
MoreCaptures ==
    /\ running
    /\ budget.captures = 0
    /\ budget' = [budget EXCEPT !.captures = IpcCaptures]
    /\ UNCHANGED << coord, entries, content, seq, now, config, codec, monitor,
                    server, exit_status, clipboard_rx, ipc_rx, conn, oneshot,
                    wl_copy, running, trace >>

\* (variant: the state of the capture thread is not looked at)
SelectionEventAnyState(bytes, mime_type) ==
    /\ exit_status = None
    /\ budget.captures > 0
    /\ budget' = [budget EXCEPT !.captures = @ - 1]
    /\ monitor' = [monitor EXCEPT
                     !.sels = Append(@, [ content |-> bytes, mime_type |-> mime_type ]),
                     !.drains = @ \cup { Len(monitor.sels) + 1 }]
    /\ UNCHANGED << coord, entries, content, seq, now, config, codec, server,
                    exit_status, clipboard_rx, ipc_rx, conn, oneshot, wl_copy,
                    running, trace >>

\* The capture thread dispatches a selection event that names an offer:
\* receive_clipboard asks for the data on a pipe and spawns a thread that
\* drains the pipe.  bytes is what the owner of the selection will write.
SelectionEvent(bytes, mime_type) ==
    /\ exit_status = None
    /\ monitor.st = "dispatching"
    /\ budget.captures > 0
    /\ budget' = [budget EXCEPT !.captures = @ - 1]
    /\ monitor' = [monitor EXCEPT
                     !.sels = Append(@, [ content |-> bytes, mime_type |-> mime_type ]),
                     !.drains = @ \cup { Len(monitor.sels) + 1 }]
    /\ UNCHANGED << coord, entries, content, seq, now, config, codec, server,
                    exit_status, clipboard_rx, ipc_rx, conn, oneshot, wl_copy,
                    running, trace >>

\* The compositor announces the selection wl-copy has set: the capture
\* thread sees it as it sees any other selection, and wl-copy serves the
\* bytes it was given.
Republished ==
    /\ wl_copy.status = "ok"
    /\ SelectionEvent(wl_copy.data, wl_copy.mime_type)

\* The first selection of a session: the user copies something
FirstCopy(bytes, mime_type) ==
    /\ monitor.sels = <<>>
    /\ SelectionEvent(bytes, mime_type)

\* The drain thread of selection i runs to its end: it has read the pipe to
\* EOF; empty content is given up; else the event is sent with
\* blocking_send, which waits while the channel is full and fails, the
\* error ignored, once the coordinator has left its loop.
DrainThread(i) ==
    /\ exit_status = None
    /\ i \in monitor.drains
    /\ monitor' = [monitor EXCEPT !.drains = @ \ { i }]
    /\ IF monitor.sels[i].content = <<>> \/ ~running
       THEN UNCHANGED clipboard_rx
       ELSE /\ Len(clipboard_rx) < ClipboardCap
            /\ clipboard_rx' = Append(clipboard_rx,
                   [ content |-> monitor.sels[i].content,
                     mime_type |-> monitor.sels[i].mime_type,
                     source_app |-> None ])
    /\ UNCHANGED << coord, entries, content, seq, now, config, codec, server,
                    exit_status, ipc_rx, conn, oneshot, wl_copy, running, trace,
                    budget >>

\* ------------------------------------------- the capture state machine
\* what the capture thread does not touch
NotMonitor ==
    << coord, entries, content, seq, now, config, codec, server, exit_status,
       clipboard_rx, ipc_rx, conn, oneshot, wl_copy, running, trace, budget >>

\* the MIME lists the owner of a selection advertises in a run
OfferedLists ==
    { <<>>, << "text/plain" >>, << "TEXT", "image/png" >>,
      << "x-kde-passwordManagerHint" >> }

\* what an offer is for: the regular selection or the primary selection
OfferKinds == { "selection", "primary" }

\* the bytes the owner of an offer writes into the pipe of a receive
OfferBytes(kind) == IF kind = "selection" THEN << 97 >> ELSE << 97, 32 >>

\* the compositor may send a device event: the thread is dispatching and
\* the device has not been declared finished
DeviceLive ==
    /\ exit_status = None
    /\ monitor.st = "dispatching"
    /\ ~monitor.finished

\* the offer events of the newest offer object follow its introduction
\* at once
OffersComplete ==
    IF monitor.offers = <<>> THEN TRUE
    ELSE monitor.sent = Len(monitor.offers[Len(monitor.offers)].mimes)

\* Event::DataOffer { id }: a new offer object is introduced
DataOffer(kind, mimes) ==
    /\ DeviceLive
    /\ OffersComplete
    /\ Len(monitor.offers) < MaxOffers
    /\ monitor' = [monitor EXCEPT
                     !.offers = Append(@, [ kind |-> kind, mimes |-> mimes,
                                             content |-> OfferBytes(kind) ]),
                     !.sent = 0,
                     !.current_offer = Some(Len(monitor.offers) + 1),
                     !.offered_mime_types = <<>>,
                     !.last_event = [ event |-> "data_offer",
                                      id |-> Some(Len(monitor.offers) + 1),
                                      log |-> "" ]]
    /\ UNCHANGED NotMonitor

\* zwlr_data_control_offer_v1::Event::Offer { mime_type }, sent by the
\* newest offer object
OfferEvent ==
    /\ DeviceLive
    /\ ~OffersComplete
    /\ LET o == Len(monitor.offers)
       IN  monitor' = [monitor EXCEPT
                         !.sent = @ + 1,
                         !.offered_mime_types =
                             Append(@, monitor.offers[o].mimes[monitor.sent + 1]),
                         !.last_event = [ event |-> "offer", id |-> Some(o),
                                          log |-> "" ]]
    /\ UNCHANGED NotMonitor

\* the offers a selection or primary_selection event can still name
Nameable(kind) ==
    { o \in 1..Len(monitor.offers) :
        monitor.offers[o].kind = kind /\ o \notin monitor.named }

\* receive_clipboard: the state of the thread after it, given whether the
\* pipe could be created
receive_clipboard(m, pipe_ok) ==
    IF m.current_offer = None THEN m
    ELSE LET offer == Unwrap(m.current_offer)
             mime_type == select_best_mime_type(m.offered_mime_types)
             taken == [m EXCEPT !.current_offer = None]
         IN  IF mime_type = None \/ ~pipe_ok THEN taken
             ELSE [taken EXCEPT
                     !.received = Append(@, [ offer |-> offer,
                                              mime_type |-> Unwrap(mime_type) ]),
                     !.sels = Append(@, [ content |-> m.offers[offer].content,
                                          mime_type |-> Unwrap(mime_type) ]),
                     !.drains = @ \cup { Len(m.sels) + 1 }]

\* what receive_clipboard logs
receive_log(m, pipe_ok) ==
    IF m.current_offer = None THEN ""
    ELSE IF select_best_mime_type(m.offered_mime_types) = None
         THEN "No suitable MIME type offered"
    ELSE IF ~pipe_ok THEN "Failed to create pipe"
    ELSE ""

\* Event::Selection { id: Some(o) }: the selection is now offer o
SelectionOffer(o, pipe_ok) ==
    /\ DeviceLive
    /\ OffersComplete
    /\ o \in Nameable("selection")
    /\ monitor' = [receive_clipboard(monitor, pipe_ok) EXCEPT
                     !.named = @ \cup { o },
                     !.last_event = [ event |-> "selection", id |-> Some(o),
                                      log |-> receive_log(monitor, pipe_ok) ]]
    /\ UNCHANGED NotMonitor

\* Event::Selection { id: None }: the selection was cleared
SelectionNull ==
    /\ DeviceLive
    /\ OffersComplete
    /\ monitor' = [monitor EXCEPT
                     !.last_event = [ event |-> "selection", id |-> None,
                                      log |-> "" ]]
    /\ UNCHANGED NotMonitor

\* Event::PrimarySelection { .. }: not monitored
PrimarySelection(o) ==
    /\ DeviceLive
    /\ OffersComplete
    /\ o \in Nameable("primary")
    /\ monitor' = [monitor EXCEPT
                     !.named = @ \cup { o },
                     !.last_event = [ event |-> "primary_selection",
                                      id |-> Some(o), log |-> "" ]]
    /\ UNCHANGED NotMonitor

\* Event::Finished: the device is no longer valid; a warning is logged
Finished ==
    /\ DeviceLive
    /\ OffersComplete
    /\ monitor' = [monitor EXCEPT
                     !.finished = TRUE,
                     !.last_event = [ event |-> "finished", id |-> None,
                                      log |-> "Data control device finished" ]]
    /\ UNCHANGED NotMonitor

ClipboardFaults ==
    { "none", "find_by_hash", "touch_by_hash", "insert_entries",
      "insert_content", "cleanup_count", "cleanup_delete" }

\* handle_clipboard_event: the results of handling one event, given the store
\* statement that fails.  op is the branch taken: too_large, too_small,
\* duplicate, stored, or failed (the handler returned Err).
ClipboardOutcomes(E, C, s, cfg, event, t, fault) ==
    LET len == Len(event.content)
        hash == Sha256Hex(event.content)
        same(op, f) == { [ entries |-> E, content |-> C, seq |-> s,
                           op |-> op, fault |-> f ] }
    IN IF TooLarge(len, cfg) THEN same("too_large", "none")
       ELSE IF TooSmall(len, cfg) THEN same("too_small", "none")
       ELSE IF fault = "find_by_hash" THEN same("failed", fault)
       ELSE IF IsSome(FindByHash(E, hash))
       THEN IF fault = "touch_by_hash" THEN same("failed", fault)
            ELSE { [ entries |-> TouchByHash(E, hash, t), content |-> C, seq |-> s,
                     op |-> "duplicate", fault |-> "none" ] }
       ELSE LET content_type == FromMime(event.mime_type)
                preview == GeneratePreview(event.content, event.mime_type, content_type)
                ins == InsertEntry(E, C, s, hash, content_type, event.mime_type,
                                   preview, event.content, t, fault)
            IN IF ~ins.ok
               THEN { [ entries |-> ins.entries, content |-> ins.content,
                        seq |-> ins.seq, op |-> "failed",
                        fault |-> IF fault \in { "insert_entries", "insert_content" }
                                  THEN fault ELSE "constraint" ] }
               ELSE { [ entries |-> cl.entries, content |-> cl.content,
                        seq |-> ins.seq,
                        op |-> IF cl.ok THEN "stored" ELSE "failed",
                        fault |-> IF cl.ok THEN "none" ELSE fault ] :
                          cl \in Cleanup(ins.entries, ins.content, cfg.max_entries, fault) }

\* The coordinator receives a capture event and handles it to completion.
HandleClipboardEvent(fault) ==
    /\ running
    /\ AtSelect
    /\ clipboard_rx # <<>>
    /\ clipboard_rx' = Tail(clipboard_rx)
    /\ \E o \in ClipboardOutcomes(entries, content, seq, config,
                                  Head(clipboard_rx), now, fault) :
          /\ entries' = o.entries
          /\ content' = o.content
          /\ seq' = o.seq
          /\ trace' = [ src |-> "clipboard", op |-> o.op,
                        fault |-> o.fault # "none" ]
    /\ UNCHANGED << coord, now, config, codec,
                    monitor, server, exit_status, ipc_rx, conn, oneshot, wl_copy, running,
                    budget >>

\* handle_clipboard_event statement by statement, no store statement
\* failing.  The coordinator receives a capture event and checks its size.
RecvClipboardEvent ==
    /\ running
    /\ AtSelect
    /\ clipboard_rx # <<>>
    /\ clipboard_rx' = Tail(clipboard_rx)
    /\ LET event == Head(clipboard_rx)
           len == Len(event.content)
       IN  IF TooLarge(len, config)
           THEN /\ trace' = [ src |-> "clipboard", op |-> "too_large", fault |-> FALSE ]
                /\ coord' = Select
           ELSE IF TooSmall(len, config)
           THEN /\ trace' = [ src |-> "clipboard", op |-> "too_small", fault |-> FALSE ]
                /\ coord' = Select
           ELSE /\ trace' = trace
                /\ coord' = [ pc |-> "find_by_hash", event |-> event ]
    /\ UNCHANGED << entries, content, seq, now, config, codec, monitor, server,
                    exit_status, ipc_rx, conn, oneshot, wl_copy, running,
                    budget >>

\* db.find_by_hash(&hash)?.is_some()
FindByHashStep ==
    /\ coord.pc = "find_by_hash"
    /\ coord' = [coord EXCEPT !.pc =
                    IF IsSome(FindByHash(entries, Sha256Hex(coord.event.content)))
                    THEN "touch_by_hash" ELSE "insert_entry"]
    /\ UNCHANGED << entries, content, seq, now, config, codec, monitor, server,
                    exit_status, clipboard_rx, ipc_rx, conn, oneshot, wl_copy,
                    running, trace, budget >>

\* db.touch_by_hash(&hash)?; return Ok(())
TouchByHashStep ==
    /\ coord.pc = "touch_by_hash"
    /\ entries' = TouchByHash(entries, Sha256Hex(coord.event.content), now)
    /\ trace' = [ src |-> "clipboard", op |-> "duplicate", fault |-> FALSE ]
    /\ coord' = Select
    /\ UNCHANGED << content, seq, now, config, codec, monitor, server,
                    exit_status, clipboard_rx, ipc_rx, conn, oneshot, wl_copy,
                    running, budget >>

\* generate_preview and db.insert_entry(...)?
InsertEntryStep ==
    /\ coord.pc = "insert_entry"
    /\ LET event == coord.event
           content_type == FromMime(event.mime_type)
           preview == GeneratePreview(event.content, event.mime_type, content_type)
           ins == InsertEntry(entries, content, seq, Sha256Hex(event.content),
                              content_type, event.mime_type, preview,
                              event.content, now, "none")
       IN  /\ entries' = ins.entries
           /\ content' = ins.content
           /\ seq' = ins.seq
           /\ IF ins.ok
              THEN /\ trace' = trace
                   /\ coord' = [coord EXCEPT !.pc = "cleanup"]
              ELSE /\ trace' = [ src |-> "clipboard", op |-> "failed", fault |-> TRUE ]
                   /\ coord' = Select
    /\ UNCHANGED << now, config, codec, monitor, server, exit_status,
                    clipboard_rx, ipc_rx, conn, oneshot, wl_copy, running,
                    budget >>

\* db.cleanup(config.daemon.max_entries)?; Ok(())
CleanupStep ==
    /\ coord.pc = "cleanup"
    /\ \E cl \in Cleanup(entries, content, config.max_entries, "none") :
          /\ entries' = cl.entries
          /\ content' = cl.content
    /\ trace' = [ src |-> "clipboard", op |-> "stored", fault |-> FALSE ]
    /\ coord' = Select
    /\ UNCHANGED << seq, now, config, codec, monitor, server, exit_status,
                    clipboard_rx, ipc_rx, conn, oneshot, wl_copy, running,
                    budget >>

\* ----------------------------------------------------------- IPC events
\* The store calls of each request that can fail, by the name of the call
IpcFaultsOf(type) ==
    CASE type = "get_history" -> { "none", "count", "select" }
      [] type = "get_content" -> { "none", "get_content" }
      [] type = "set_clipboard" -> { "none", "get_content", "touch_entry" }
      [] type = "delete_entry" -> { "none", "delete_entry" }
      [] type = "clear_history" -> { "none", "clear_unpinned" }
      [] type = "set_pinned" -> { "none", "set_pinned" }
      [] type = "get_status" -> { "none", "count_entries", "database_size" }
      [] OTHER -> { "none" }

\* What copy_to_clipboard can come to: wl-copy is not started, or it exits
\* with a failure status, or it succeeds
PublisherOutcomes == { "ok", "spawn_failed", "exit_failure" }

\* copy_to_clipboard(data, mime_type): the run of the publisher
CopyToClipboard(wl, data, mime_type, pub) ==
    [ n |-> wl.n + 1, mime_type |-> mime_type, data |-> data, status |-> pub ]

\* (variant: select! polls its branches in the order written, and the IPC
\* branch is looked at only when the capture channel is empty)
IpcBranchBiased == ipc_rx # <<>> /\ clipboard_rx = <<>>

\* the IPC branch of select! can be taken: ipc_rx.recv() has an event, and
\* the branches are polled in random order, so no other ready branch comes
\* before it every time
IpcBranchReady == ipc_rx # <<>>

\* handle_ipc_event: the results of handling one request, given the store
\* call that fails, the outcome of the publisher and the size of the
\* database file.  fault is the failure that did happen.
IpcOutcomes(E, C, req, t, wl, fault, pub, size) ==
    LET out(E1, C1, wl1, resp, f) ==
            { [ entries |-> E1, content |-> C1, wl_copy |-> wl1,
                response |-> resp, fault |-> f ] }
        dberr == out(E, C, wl, RespError("database_error"), fault)
    IN CASE req.type = "get_history" ->
              { [ entries |-> E, content |-> C, wl_copy |-> wl,
                  response |-> IF h.ok THEN RespHistory(h.entries, h.total)
                               ELSE RespError("database_error"),
                  fault |-> IF fault = "select" \/ (fault = "count" /\ ~h.ok)
                               \/ (fault = "count" /\ IsSome(req.search))
                            THEN fault ELSE "none" ] :
                  h \in GetHistory(E, req.limit, req.offset, req.search, fault) }
         [] req.type = "get_content" ->
              IF fault = "get_content" THEN dberr
              ELSE LET got == GetContent(E, C, req.id)
                   IN IF IsSome(got)
                      THEN out(E, C, wl, RespContent(req.id, got[1][1], got[1][2]), "none")
                      ELSE out(E, C, wl, RespNotFound(req.id), "none")
         [] req.type = "set_clipboard" ->
              IF fault = "get_content" THEN dberr
              ELSE LET got == GetContent(E, C, req.id)
                   IN IF IsSome(got)
                      THEN LET run == CopyToClipboard(wl, got[1][2], got[1][1], pub)
                           IN IF pub = "ok"
                              THEN IF fault = "touch_entry"
                                   THEN out(E, C, run, RespOk, fault)
                                   ELSE out(TouchEntry(E, req.id, t), C, run, RespOk, "none")
                              ELSE out(E, C, run, RespError("clipboard_error"), "none")
                      ELSE out(E, C, wl, RespNotFound(req.id), "none")
         [] req.type = "delete_entry" ->
              IF fault = "delete_entry" THEN dberr
              ELSE LET d == DeleteEntry(E, C, req.id)
                   IN IF d.found THEN out(d.entries, d.content, wl, RespOk, "none")
                      ELSE out(d.entries, d.content, wl, RespNotFound(req.id), "none")
         [] req.type = "clear_history" ->
              IF fault = "clear_unpinned" THEN dberr
              ELSE LET d == ClearUnpinned(E, C)
                   IN out(d.entries, d.content, wl, RespOk, "none")
         [] req.type = "set_pinned" ->
              IF fault = "set_pinned" THEN dberr
              ELSE LET d == SetPinned(E, req.id, req.pinned)
                   IN IF d.found THEN out(d.entries, C, wl, RespOk, "none")
                      ELSE out(d.entries, C, wl, RespNotFound(req.id), "none")
         [] req.type = "get_status" ->
              IF fault \in { "count_entries", "database_size" } THEN dberr
              ELSE out(E, C, wl, RespStatus(CountEntries(E), size), "none")
         [] OTHER -> out(E, C, wl, RespPong, "none")

\* The coordinator receives an IPC event, handles it to completion and sends
\* the response on the event's response_tx.
HandleIpcEvent(fault, pub, size) ==
    /\ running
    /\ AtSelect
    /\ IpcBranchReady
    /\ LET event == Head(ipc_rx)
       IN /\ fault \in IpcFaultsOf(event.request.type)
          /\ pub # "ok" => event.request.type = "set_clipboard"
          /\ event.request.type # "get_status" => \A z \in DbFileSizes : size <= z
          /\ \E o \in IpcOutcomes(entries, content, event.request, now, wl_copy,
                                  fault, pub, size) :
                /\ entries' = o.entries
                /\ content' = o.content
                /\ wl_copy' = o.wl_copy
                /\ oneshot' = oneshot \cup { [ tx |-> event.response_tx,
                                               req |-> event.request.type,
                                               response |-> o.response ] }
                /\ trace' = [ src |-> "ipc", op |-> "", fault |-> o.fault # "none" ]
    /\ ipc_rx' = Tail(ipc_rx)
    /\ UNCHANGED << coord, seq, now, config, codec,
                    monitor, server, exit_status, clipboard_rx, conn, running,
                    budget >>

\* ---------------------------------------------------------- connections
\* (variant: the task reads the next line without awaiting the reply)
CanReadPipelined(cn) == cn.st = "open"

\* handle_client is back at read_line only after the reply to the request it
\* forwarded has been awaited and written
CanRead(cn) == cn.st = "open" /\ cn.pending = {}

\* handle_client reads a line: a line that does not decode is answered at
\* once with invalid_request; a request is sent to the coordinator with a
\* fresh reply channel (the send waits while the channel is full).  Once
\* the coordinator has left its loop the send may find the channel closed:
\* the task ends and the connection is closed.
ReadLine(c, line) ==
    /\ exit_status = None
    /\ CanRead(conn[c])
    /\ budget.requests > 0
    /\ budget' = [budget EXCEPT !.requests = @ - 1]
    /\ LET n == conn[c].nread + 1
           request == DecodeRequest(line)
       IN IF IsSome(request)
          THEN \/ /\ Len(ipc_rx) < IpcCap
                  /\ ipc_rx' = Append(ipc_rx, [ request |-> Unwrap(request),
                                                response_tx |-> [ c |-> c, n |-> n ] ])
                  /\ conn' = [conn EXCEPT ![c].nread = n, ![c].pending = @ \cup {n}]
               \/ /\ ~running
                  /\ conn' = [conn EXCEPT ![c].nread = n, ![c].st = "closed"]
                  /\ UNCHANGED ipc_rx
          ELSE /\ conn' = [conn EXCEPT ![c].nread = n, ![c].nwritten = @ + 1,
                                       ![c].last = RespError("invalid_request")]
               /\ UNCHANGED ipc_rx
    /\ UNCHANGED << coord, entries, content, seq, now, config, codec,
                    monitor, server, exit_status, clipboard_rx, oneshot,
                    wl_copy, running, trace >>

\* handle_client receives the reply it awaits and writes it to the socket
WriteResponse(c) ==
    /\ exit_status = None
    /\ conn[c].st = "open"
    /\ \E reply \in oneshot :
          /\ reply.tx.c = c
          /\ reply.tx.n \in conn[c].pending
          /\ oneshot' = oneshot \ { reply }
          /\ conn' = [conn EXCEPT ![c].pending = @ \ { reply.tx.n },
                                  ![c].nwritten = @ + 1,
                                  ![c].last = reply.response]
    /\ UNCHANGED << coord, entries, content, seq, now, config, codec,
                    monitor, server, exit_status, clipboard_rx, ipc_rx,
                    wl_copy, running, trace, budget >>

\* read_line returns 0 bytes: the client has closed, the task ends
ClientEof(c) ==
    /\ exit_status = None
    /\ CanRead(conn[c])
    /\ conn' = [conn EXCEPT ![c].st = "closed"]
    /\ UNCHANGED << coord, entries, content, seq, now, config, codec,
                    monitor, server, exit_status, clipboard_rx, ipc_rx,
                    oneshot, wl_copy, running, trace, budget >>

\* ctrl_c: the coordinator leaves its loop and the process ends
Shutdown ==
    /\ running
    /\ AtSelect
    /\ running' = FALSE
    /\ UNCHANGED << coord, entries, content, seq, now, config, codec,
                    monitor, server, exit_status, clipboard_rx, ipc_rx,
                    conn, oneshot, wl_copy, trace, budget >>

\* The coordinator has left its loop and main is returning: the receiver of
\* the IPC channel is dropped, and with it the response_tx of every queued
\* event.  A connection task that is scheduled before the runtime is torn
\* down finds its reply channel closed and answers with internal_error.
AbandonedReply(c) ==
    /\ ~running
    /\ exit_status = None
    /\ conn[c].st = "open"
    /\ \E n \in conn[c].pending :
          /\ \A reply \in oneshot : reply.tx # [ c |-> c, n |-> n ]
          /\ conn' = [conn EXCEPT ![c].pending = @ \ { n },
                                  ![c].nwritten = @ + 1,
                                  ![c].last = RespError("internal_error")]
    /\ UNCHANGED << coord, entries, content, seq, now, config, codec, monitor, server,
                    exit_status, clipboard_rx, ipc_rx, oneshot, wl_copy,
                    running, trace, budget >>

\* (variant: the connections are left as they are)
ProcessExitLeavesOpen ==
    /\ ~running
    /\ exit_status = None
    /\ exit_status' = Some(0)
    /\ UNCHANGED << coord, entries, content, seq, now, config, codec, monitor, server,
                    clipboard_rx, ipc_rx, conn, oneshot, wl_copy, running, trace,
                    budget >>

\* main returns Ok(()): the runtime is torn down with every task on it, the
\* sockets are closed, the process ends with status 0
ProcessExit ==
    /\ ~running
    /\ exit_status = None
    /\ exit_status' = Some(0)
    /\ conn' = [c \in Conns |-> [conn[c] EXCEPT !.st = "closed"]]
    /\ UNCHANGED << coord, entries, content, seq, now, config, codec, monitor, server,
                    clipboard_rx, ipc_rx, oneshot, wl_copy, running, trace,
                    budget >>

\* ------------------------------------------------------------- start-up
\* What the start of monitor can come to: the dispatch loop is reached, or
\* the connection to the compositor fails, or a round trip fails, or the
\* compositor does not advertise the data-control manager
MonitorStarts == { "ok", "connect", "roundtrip", "no_manager" }

\* monitor runs up to its dispatch loop or returns an error; the thread
\* that called it logs the error and ends
MonitorStart(outcome) ==
    /\ exit_status = None
    /\ monitor.st = "starting"
    /\ monitor' = IF outcome = "ok"
                  THEN [monitor EXCEPT !.st = "dispatching"]
                  ELSE [monitor EXCEPT !.st = "exited", !.err = outcome]
    /\ UNCHANGED << coord, entries, content, seq, now, config, codec, server,
                    exit_status, clipboard_rx, ipc_rx, conn, oneshot, wl_copy,
                    running, trace, budget >>

\* blocking_dispatch fails in the dispatch loop: monitor returns the error
\* and the capture thread ends; the drain threads it spawned run on
MonitorExit ==
    /\ exit_status = None
    /\ monitor.st = "dispatching"
    /\ monitor' = [monitor EXCEPT !.st = "exited", !.err = "dispatch"]
    /\ UNCHANGED << coord, entries, content, seq, now, config, codec, server,
                    exit_status, clipboard_rx, ipc_rx, conn, oneshot, wl_copy,
                    running, trace, budget >>

\* What the start of serve can come to: the listener is bound, or the stale
\* socket file is not removed, or the directory is not made, or bind fails
ServeStarts == { "ok", "remove_file", "create_dir_all", "bind" }

\* serve runs up to its accept loop or returns an error; the task ends and
\* nobody awaits its result
ServeStart(outcome) ==
    /\ exit_status = None
    /\ server = "starting"
    /\ server' = IF outcome = "ok" THEN "listening" ELSE "failed"
    /\ UNCHANGED << coord, entries, content, seq, now, config, codec, monitor,
                    exit_status, clipboard_rx, ipc_rx, conn, oneshot, wl_copy,
                    running, trace, budget >>

\* accept: a client that connects gets a connection task
Accept(c) ==
    /\ running
    /\ server = "listening"
    /\ conn[c].st = "connecting"
    /\ conn' = [conn EXCEPT ![c].st = "open"]
    /\ UNCHANGED << coord, entries, content, seq, now, config, codec, monitor, server,
                    exit_status, clipboard_rx, ipc_rx, oneshot, wl_copy,
                    running, trace, budget >>

\* ------------------------------------------------------- specifications
set_pinned(id, pinned) == Line(TRUE, "set_pinned", id, pinned)
delete_entry(id) == Line(TRUE, "delete_entry", id, FALSE)
set_clipboard(id) == Line(TRUE, "set_clipboard", id, FALSE)
get_content(id) == Line(TRUE, "get_content", id, FALSE)
clear_history == Line(TRUE, "clear_history", 0, FALSE)
get_status == Line(TRUE, "get_status", 0, FALSE)
ping == Line(TRUE, "ping", 0, FALSE)
get_history(limit, offset, search) ==
    [ Line(TRUE, "get_history", 0, FALSE) EXCEPT
        !.limit = limit, !.offset = offset, !.search = search ]

AllIpcFaults == UNION { IpcFaultsOf(t) : t \in RequestTypes }

InitWith(cfgs, captures, requests) ==
    /\ entries = {}
    /\ content = {}
    /\ seq = 0
    /\ now = 0
    /\ config \in cfgs
    /\ clipboard_rx = <<>>
    /\ ipc_rx = <<>>
    /\ conn = [c \in Conns |-> [ st |-> "open", nread |-> 0, nwritten |-> 0,
                                  pending |-> {}, last |-> NoResponse ]]
    /\ oneshot = {}
    /\ wl_copy = NoRun
    /\ running = TRUE
    /\ trace = NoTrace
    /\ budget = [ captures |-> captures, requests |-> requests ]
    /\ codec = NoCodec
    /\ monitor = Dispatching
    /\ server = "listening"
    /\ exit_status = None
    /\ coord = Select

\* Spec: the store under captures and the requests of one client that pin,
\* delete and clear.
StoreLines ==
    { set_pinned(id, b) : id \in Ids, b \in BOOLEAN }
      \cup { delete_entry(id) : id \in Ids } \cup { clear_history }

Init == InitWith(Configs, MaxCaptures, MaxRequests)

Next ==
    \/ Tick
    \/ \E x \in Selections : DrainSend(x[1], x[2])
    \/ \E f \in ClipboardFaults : HandleClipboardEvent(f)
    \/ \E l \in StoreLines : ReadLine(1, l)
    \/ \E f \in AllIpcFaults, p \in PublisherOutcomes, z \in DbFileSizes :
          HandleIpcEvent(f, p, z)
    \/ WriteResponse(1)

Spec == Init /\ [][Next]_vars

\* Spec with every thread and task of the daemon scheduled: a step that can
\* be taken is not put off forever.
FairSpec == Spec /\ WF_vars(Next)

\* SpecPublish: the store under captures and the requests of one client that
\* re-publish and pin.
PublishLines ==
    { set_clipboard(id) : id \in Ids } \cup { set_pinned(id, TRUE) : id \in Ids }

InitPublish == InitWith(Configs, MaxCaptures, MaxPublishRequests)

NextPublish ==
    \/ Tick
    \/ \E x \in Selections : DrainSend(x[1], x[2])
    \/ \E f \in ClipboardFaults : HandleClipboardEvent(f)
    \/ \E l \in PublishLines : ReadLine(1, l)
    \/ \E f \in AllIpcFaults, p \in PublisherOutcomes, z \in DbFileSizes :
          HandleIpcEvent(f, p, z)
    \/ WriteResponse(1)

SpecPublish == InitPublish /\ [][NextPublish]_vars

\* SpecIpc: every connection sends requests, well formed or not, while
\* captures arrive; clients close and the daemon is interrupted.
IpcLines ==
    { ping, get_status, get_content(1),
      Line(TRUE, "frobnicate", 0, FALSE), Line(FALSE, "", 0, FALSE) }

IpcConfigs == { c \in Configs : c.max_entries = MaxMaxEntries /\ c.min_entry_size = 1 }

InitIpc == InitWith(IpcConfigs, IpcCaptures, MaxIpcRequests)

NextIpc ==
    \/ \E x \in Selections : DrainSend(x[1], x[2])
    \/ \E f \in ClipboardFaults : HandleClipboardEvent(f)
    \/ \E c \in Conns, l \in IpcLines : ReadLine(c, l)
    \/ \E f \in AllIpcFaults, p \in PublisherOutcomes, z \in DbFileSizes :
          HandleIpcEvent(f, p, z)
    \/ \E c \in Conns : WriteResponse(c)
    \/ \E c \in Conns : ClientEof(c)
    \/ Shutdown

SpecIpc == InitIpc /\ [][NextIpc]_vars

\* SpecRead: the store under captures and the requests of one client that
\* list, read, ask for the status, pin and delete, with lines that do not
\* decode; max_entries is large enough for nothing to be evicted.
Searches == { None, Some(<<>>), Some(<<97>>) }

ReadLines ==
    { get_history(l, o, q) : l \in { None, Some(0), Some(1) },
                             o \in { None, Some(1) }, q \in Searches }
      \cup { get_content(id) : id \in Ids }
      \cup { delete_entry(id) : id \in Ids }
      \cup { set_pinned(id, TRUE) : id \in Ids }
      \cup { get_status, ping, Line(TRUE, "frobnicate", 0, FALSE) }

ReadConfigs ==
    { c \in [ max_entries : { MaxCaptures }, min_entry_size : { 1 },
              max_entry_size : { 2 }, max_age_days : { 0 },
              ignore_mime_patterns : { IgnoreMimePatterns } ] : TRUE }

InitRead == InitWith(ReadConfigs, MaxCaptures, MaxReadRequests)

NextRead ==
    \/ Tick
    \/ \E x \in Selections : DrainSend(x[1], x[2])
    \/ \E f \in ClipboardFaults : HandleClipboardEvent(f)
    \/ \E l \in ReadLines : ReadLine(1, l)
    \/ \E f \in AllIpcFaults, p \in PublisherOutcomes, z \in DbFileSizes :
          HandleIpcEvent(f, p, z)
    \/ WriteResponse(1)

SpecRead == InitRead /\ [][NextRead]_vars

\* SpecCapture: selections are announced, each drained by a thread of its
\* own, and the coordinator handles the events; no store statement fails
\* and no client is connected.
InitCapture == InitWith(Configs, MaxCaptures, 0)

NextCapture ==
    \/ Tick
    \/ \E x \in Selections : SelectionEvent(x[1], x[2])
    \/ \E i \in 1..MaxCaptures : DrainThread(i)
    \/ HandleClipboardEvent("none")

SpecCapture == InitCapture /\ [][NextCapture]_vars

\* SpecRepublish: the user copies 'a' once, a client re-publishes, deletes
\* and clears, and the capture thread sees the selection that a successful
\* run of wl-copy has set; no store statement fails.
RepublishLines ==
    { set_clipboard(id) : id \in Ids } \cup { delete_entry(id) : id \in Ids }
      \cup { clear_history }

InitRepublish == InitWith(IpcConfigs, MaxCaptures, MaxRequests)

NextRepublish ==
    \/ Tick
    \/ FirstCopy(<< 97 >>, "text/plain")
    \/ Republished
    \/ \E i \in 1..MaxCaptures : DrainThread(i)
    \/ HandleClipboardEvent("none")
    \/ \E l \in RepublishLines : ReadLine(1, l)
    \/ \E p \in PublisherOutcomes, z \in DbFileSizes : HandleIpcEvent("none", p, z)
    \/ WriteResponse(1)

SpecRepublish == InitRepublish /\ [][NextRepublish]_vars

\* SpecSteps: the coordinator runs handle_clipboard_event one statement at
\* a time while drain threads and the connection task go on; a client
\* reads the store and the daemon is interrupted; no store statement fails.
StepLines == { get_status } \cup { get_content(id) : id \in Ids }

InitSteps == InitWith(Configs, MaxCaptures, MaxRequests)

NextSteps ==
    \/ Tick
    \/ \E x \in Selections : DrainSend(x[1], x[2])
    \/ RecvClipboardEvent
    \/ FindByHashStep
    \/ TouchByHashStep
    \/ InsertEntryStep
    \/ CleanupStep
    \/ \E l \in StepLines : ReadLine(1, l)
    \/ \E z \in DbFileSizes : HandleIpcEvent("none", "ok", z)
    \/ WriteResponse(1)
    \/ Shutdown

SpecSteps == InitSteps /\ [][NextSteps]_vars

\* SpecBusy: capture events never stop arriving (selections too large to
\* be admitted, so that the store stays as it is) while both connections
\* send requests; the daemon is not interrupted and no client hangs up.
BusyConfigs == { c \in Configs : c.max_entry_size = 1 }

BusyLines == { ping, get_status, get_content(1) }

InitBusy == InitWith(BusyConfigs, IpcCaptures, MaxRequests)

NextBusy ==
    \/ DrainSend(<< 97, 32 >>, "text/plain")
    \/ MoreCaptures
    \/ HandleClipboardEvent("none")
    \/ \E c \in Conns, l \in BusyLines : ReadLine(c, l)
    \/ \E z \in DbFileSizes : HandleIpcEvent("none", "ok", z)
    \/ \E c \in Conns : WriteResponse(c)

SpecBusy == InitBusy /\ [][NextBusy]_vars

\* SpecBusy with the coordinator and the connection tasks scheduled: a
\* branch of select! that stays ready is taken, and a task that can run is
\* run.
FairBusy ==
    /\ SpecBusy
    /\ WF_vars(\E z \in DbFileSizes : HandleIpcEvent("none", "ok", z))
    /\ WF_vars(HandleClipboardEvent("none"))
    /\ \A c \in Conns : WF_vars(WriteResponse(c))

\* SpecOffers: the capture thread dispatches the events of the data-control
\* device and of its offer objects; the drain threads and the coordinator
\* run as in SpecCapture.
InitOffers == InitWith(ReadConfigs, 0, 0)

NextOffers ==
    \/ \E k \in OfferKinds, l \in OfferedLists : DataOffer(k, l)
    \/ OfferEvent
    \/ \E o \in 1..MaxOffers, ok \in BOOLEAN : SelectionOffer(o, ok)
    \/ SelectionNull
    \/ \E o \in 1..MaxOffers : PrimarySelection(o)
    \/ Finished
    \/ \E i \in 1..MaxOffers : DrainThread(i)
    \/ HandleClipboardEvent("none")

SpecOffers == InitOffers /\ [][NextOffers]_vars

\* SpecMime: select_best_mime_type over every offered list of at most
\* MaxOffered of these MIME types; the thread has collected the list of one
\* offer and the selection event that names the offer arrives.
MimeTypes ==
    { "image/png", "image/jpeg", "text/plain;charset=utf-8", "text/plain",
      "TEXT", "text/html", "x-kde-passwordManagerHint" }

MimeLists == UNION { [1..k -> MimeTypes] : k \in 0..MaxOffered }

InitMime ==
    /\ entries = {}
    /\ content = {}
    /\ seq = 0
    /\ now = 0
    /\ config \in ReadConfigs
    /\ clipboard_rx = <<>>
    /\ ipc_rx = <<>>
    /\ conn = [c \in Conns |-> [ st |-> "open", nread |-> 0, nwritten |-> 0,
                                  pending |-> {}, last |-> NoResponse ]]
    /\ oneshot = {}
    /\ wl_copy = NoRun
    /\ running = TRUE
    /\ trace = NoTrace
    /\ budget = [ captures |-> 0, requests |-> 0 ]
    /\ codec = NoCodec
    /\ \E l \in MimeLists :
         monitor = [Dispatching EXCEPT
                      !.offers = << [ kind |-> "selection", mimes |-> l,
                                      content |-> OfferBytes("selection") ] >>,
                      !.sent = Len(l),
                      !.current_offer = Some(1),
                      !.offered_mime_types = l,
                      !.last_event = [ event |-> IF l = <<>> THEN "data_offer"
                                                 ELSE "offer",
                                       id |-> Some(1), log |-> "" ]]
    /\ server = "listening"
    /\ exit_status = None
    /\ coord = Select

NextMime == \E ok \in BOOLEAN : SelectionOffer(1, ok)

SpecMime == InitMime /\ [][NextMime]_vars

\* SpecLife: the daemon from the moment main has spawned the capture thread
\* and the serve task and entered its loop, to the end of the process.
LifeLines == { ping, get_content(1) }

InitLife ==
    /\ entries = {}
    /\ content = {}
    /\ seq = 0
    /\ now = 0
    /\ config \in IpcConfigs
    /\ clipboard_rx = <<>>
    /\ ipc_rx = <<>>
    /\ conn = [c \in Conns |-> [ st |-> "connecting", nread |-> 0, nwritten |-> 0,
                                  pending |-> {}, last |-> NoResponse ]]
    /\ oneshot = {}
    /\ wl_copy = NoRun
    /\ running = TRUE
    /\ trace = NoTrace
    /\ budget = [ captures |-> IpcCaptures, requests |-> MaxRequests ]
    /\ codec = NoCodec
    /\ monitor = [Dispatching EXCEPT !.st = "starting"]
    /\ server = "starting"
    /\ exit_status = None
    /\ coord = Select

NextLife ==
    \/ \E o \in MonitorStarts : MonitorStart(o)
    \/ MonitorExit
    \/ \E o \in ServeStarts : ServeStart(o)
    \/ \E c \in Conns : Accept(c)
    \/ \E x \in Selections : SelectionEvent(x[1], x[2])
    \/ \E i \in 1..IpcCaptures : DrainThread(i)
    \/ HandleClipboardEvent("none")
    \/ \E c \in Conns, l \in LifeLines : ReadLine(c, l)
    \/ \E f \in AllIpcFaults, p \in PublisherOutcomes, z \in DbFileSizes :
          HandleIpcEvent(f, p, z)
    \/ \E c \in Conns : WriteResponse(c)
    \/ Shutdown
    \/ \E c \in Conns : AbandonedReply(c)
    \/ ProcessExit

SpecLife == InitLife /\ [][NextLife]_vars

\* SpecLife with the coordinator, the connection tasks and the return of
\* main scheduled
FairLife ==
    /\ SpecLife
    /\ WF_vars(\E f \in AllIpcFaults, p \in PublisherOutcomes, z \in DbFileSizes :
                  HandleIpcEvent(f, p, z))
    /\ \A c \in Conns : WF_vars(WriteResponse(c))
    /\ WF_vars(ProcessExit)

\* SpecAge: the store under captures and pins while days pass, with and
\* without a maximum age configured; max_entries is large enough for the
\* count rule to evict nothing.
AgeConfigs ==
    { c \in [ max_entries : { MaxCaptures }, min_entry_size : { 1 },
              max_entry_size : { 2 }, max_age_days : { 0, 1 },
              ignore_mime_patterns : { IgnoreMimePatterns } ] : TRUE }

AgeLines == { set_pinned(id, TRUE) : id \in Ids }

InitAge == InitWith(AgeConfigs, MaxCaptures, MaxRequests)

NextAge ==
    \/ Tick
    \/ TickDay
    \/ \E x \in Selections : DrainSend(x[1], x[2])
    \/ \E f \in ClipboardFaults : HandleClipboardEvent(f)
    \/ \E l \in AgeLines : ReadLine(1, l)
    \/ \E f \in AllIpcFaults, p \in PublisherOutcomes, z \in DbFileSizes :
          HandleIpcEvent(f, p, z)
    \/ WriteResponse(1)

SpecAge == InitAge /\ [][NextAge]_vars

\* SpecCodec: a peer encodes one message, a Request or a Response, and the
\* other peer decodes the record.
CodecTexts ==
    { <<>>, <<97>>, <<10>>, <<34, 92>>, <<92, 110>>, <<97, 10, 34, 92, 110>> }
CodecIds == { 0 - 1, 0, 12 }

CodecRequests ==
    { [NoRequest EXCEPT !.type = "get_history", !.limit = l, !.offset = o, !.search = q] :
        l \in { None, Some(0), Some(10) }, o \in { None, Some(3) },
        q \in { None } \cup { Some(t) : t \in CodecTexts } }
      \cup { [NoRequest EXCEPT !.type = t, !.id = id] :
                t \in { "get_content", "set_clipboard", "delete_entry" }, id \in CodecIds }
      \cup { [NoRequest EXCEPT !.type = "set_pinned", !.id = id, !.pinned = b] :
                id \in CodecIds, b \in BOOLEAN }
      \cup { [NoRequest EXCEPT !.type = t] : t \in { "clear_history", "get_status", "ping" } }

CodecEntries ==
    { [ id |-> 12, content_type |-> "text", mime_type |-> "text/plain",
        preview |-> <<97, 10, 34, 92, 110>>, byte_size |-> 5, created_at |-> 0,
        pinned |-> FALSE, thumbnail |-> None ],
      [ id |-> 3, content_type |-> "image", mime_type |-> "image/png",
        preview |-> <<>>, byte_size |-> 10, created_at |-> 0 - 1,
        pinned |-> TRUE, thumbnail |-> Some(<<97>>) ],
      [ id |-> 0, content_type |-> "text", mime_type |-> "image/png",
        preview |-> <<92, 110>>, byte_size |-> 0, created_at |-> 12,
        pinned |-> TRUE, thumbnail |-> Some(<<>>) ] }

CodecResponses ==
    { [NoResponse EXCEPT !.type = t] : t \in { "ok", "pong" } }
      \cup { [NoResponse EXCEPT !.type = "error", !.code = c, !.message = m] :
                c \in ErrorCodes, m \in CodecTexts }
      \cup { RespNotFound(id) : id \in CodecIds }
      \cup { [NoResponse EXCEPT !.type = "content", !.id = id, !.mime_type = m, !.data = d] :
                id \in CodecIds, m \in { "text/plain", "image/png" },
                d \in { <<>>, <<97>> } }
      \cup { [NoResponse EXCEPT !.type = "status", !.version = VERSION,
                                !.entry_count = n, !.database_size_bytes = z] :
                n \in { 0, 3 }, z \in DbFileSizes }
      \cup { [NoResponse EXCEPT !.type = "history", !.entries = es, !.total_count = n] :
                es \in { <<>> } \cup { <<a>> : a \in CodecEntries }
                        \cup { <<a, b>> : a \in CodecEntries, b \in CodecEntries },
                n \in { 0, 3 } }

InitCodec ==
    /\ entries = {}
    /\ content = {}
    /\ seq = 0
    /\ now = 0
    /\ config \in ReadConfigs
    /\ clipboard_rx = <<>>
    /\ ipc_rx = <<>>
    /\ conn = [c \in Conns |-> [ st |-> "open", nread |-> 0, nwritten |-> 0,
                                  pending |-> {}, last |-> NoResponse ]]
    /\ oneshot = {}
    /\ wl_copy = NoRun
    /\ running = TRUE
    /\ trace = NoTrace
    /\ budget = [ captures |-> 0, requests |-> 0 ]
    /\ monitor = Dispatching
    /\ server = "listening"
    /\ exit_status = None
    /\ coord = Select
    /\ codec \in { [NoCodec EXCEPT !.phase = "new", !.of = "request", !.request = r] :
                      r \in CodecRequests }
                 \cup { [NoCodec EXCEPT !.phase = "new", !.of = "response", !.response = r] :
                          r \in CodecResponses }

NextCodec == CodecEncode \/ CodecDecode

SpecCodec == InitCodec /\ [][NextCodec]_vars

\* ---------------------------------------------------------- properties
\* the step in which the coordinator handles the next capture event
ClipboardStep == clipboard_rx # <<>> /\ clipboard_rx' = Tail(clipboard_rx)
\* the step in which the coordinator handles the next IPC event
IpcStep == ipc_rx # <<>> /\ ipc_rx' = Tail(ipc_rx)
\* the reply that step sends
NewReply == CHOOSE r \in oneshot' \ oneshot : TRUE
ContentOf(C, id) == { c \in C : c.entry_id = id }
IdsOf(E) == { e.id : e \in E }

\* C1: in every reachable state no two distinct Entries have the same
\* content_hash.
C1_UniqueHash ==
    \A e1, e2 \in entries : e1.content_hash = e2.content_hash => e1 = e2

\* both captures have been handled, the second one of the bytes the first
\* one stored, and one Entry exists
C1_Witness ==
    /\ trace.op = "duplicate"
    /\ budget.captures = 0
    /\ seq = 1
    /\ Cardinality(entries) = 1

\* C2: every Entry has exactly one Content row with its id, byte_size is the
\* length of that Content, and no Content row is without its Entry, also
\* after an insert that fails part-way.
C2_EntryHasContent ==
    /\ \A e \in entries :
          /\ Cardinality(ContentOf(content, e.id)) = 1
          /\ \A c \in ContentOf(content, e.id) : Len(c.data) = e.byte_size
    /\ \A c \in content : c.entry_id \in IdsOf(entries)

\* C3: when the coordinator handles, without a store failure, a capture of
\* bytes that an Entry already holds (under any MIME type), no Entry is
\* created, that Entry is the only one with the hash, its created_at is
\* unchanged, its use_count is one more and its last_used_at has not decreased.
C3_SecondCaptureTouches ==
    [][ (ClipboardStep /\ ~trace'.fault) =>
          \A e \in entries :
              e.content_hash = Sha256Hex(Head(clipboard_rx).content) =>
                  /\ IdsOf(entries') = IdsOf(entries)
                  /\ seq' = seq
                  /\ Cardinality({ x \in entries' : x.content_hash = e.content_hash }) = 1
                  /\ \E e2 \in entries' :
                        /\ e2.id = e.id
                        /\ e2.created_at = e.created_at
                        /\ e2.use_count = e.use_count + 1
                        /\ e2.last_used_at >= e.last_used_at ]_vars

\* the same bytes have been captured twice, the second time a second later
C3_Witness ==
    /\ trace.op = "duplicate"
    /\ \E e \in entries : e.use_count = 2 /\ e.last_used_at > e.created_at

\* C4: right after a sweep (the eviction pass that follows an insert) the
\* number of non-pinned Entries is at most max_entries.
C4_SweepBound ==
    (trace.src = "clipboard" /\ trace.op = "stored") =>
        Cardinality(NonPinned(entries)) <= config.max_entries

\* a sweep has deleted a row: no request was read, and fewer rows are left
\* than ids were assigned
C4_Witness ==
    /\ trace.op = "stored"
    /\ budget.requests = MaxRequests
    /\ seq > Cardinality(entries)
    /\ Cardinality(NonPinned(entries)) = config.max_entries

\* C5: handling a capture event (the only place an eviction pass runs) never
\* deletes a pinned Entry: it is present, pinned, with its Content rows,
\* afterwards.
C5_PinnedSurviveSweep ==
    [][ ClipboardStep =>
          \A e \in entries : e.pinned = 1 =>
              /\ \E e2 \in entries' :
                    /\ e2.id = e.id
                    /\ e2.pinned = 1
                    /\ e2.content_hash = e.content_hash
              /\ ContentOf(content', e.id) = ContentOf(content, e.id) ]_vars

\* a sweep has deleted a row while a pinned Entry existed: the one request
\* read was the pin, and fewer rows are left than ids were assigned
C5_Witness ==
    /\ trace.op = "stored"
    /\ budget.requests = MaxRequests - 1
    /\ seq > Cardinality(entries)
    /\ \E e \in entries : e.pinned = 1

\* C7: a clear_history that is answered ok deletes exactly the non-pinned
\* Entries and their Content: get_history with no search then returns no
\* non-pinned Entry, and every Entry pinned before is present with its
\* Content.
C7_ClearKeepsPinned ==
    [][ (IpcStep /\ Head(ipc_rx).request.type = "clear_history"
            /\ NewReply.response = RespOk) =>
          /\ entries' = { e \in entries : e.pinned = 1 }
          /\ content' = { c \in content :
                            \E e \in entries : e.pinned = 1 /\ e.id = c.entry_id }
          /\ \A h \in GetHistory(entries', None, None, None, "none") :
                \A i \in 1..Len(h.entries) : h.entries[i].pinned ]_vars

\* clear_history has been answered ok, it deleted a row and left a pinned one
C7_Witness ==
    /\ \E r \in oneshot : r.req = "clear_history" /\ r.response = RespOk
    /\ entries # {}
    /\ \A e \in entries : e.pinned = 1
    /\ seq > Cardinality(entries)
    /\ trace.src = "ipc"

\* C8: a capture event goes on to dedup / insert iff min_entry_size <=
\* length <= max_entry_size; a capture that is dropped leaves the store
\* unchanged, and one that is admitted and meets no store failure changes it.
C8_Admission ==
    [][ ClipboardStep =>
          LET len == Len(Head(clipboard_rx).content)
              admitted == config.min_entry_size <= len /\ len <= config.max_entry_size
          IN /\ admitted <=> trace'.op \in { "duplicate", "stored", "failed" }
             /\ ~admitted => UNCHANGED << entries, content, seq >>
             /\ (admitted /\ ~trace'.fault) =>
                   << entries, content, seq >>' # << entries, content, seq >> ]_vars

\* an Entry of exactly max_entry_size (and min_entry_size) bytes is stored
\* and a capture one byte longer has been dropped
C8_Witness ==
    /\ trace.op = "too_large"
    /\ \E e \in entries : e.byte_size = config.max_entry_size
                          /\ e.byte_size = config.min_entry_size

\* the rows of E1 and E2 differ at most in last_used_at and use_count of the
\* rows T of E1
TouchFrame(E1, E2, T) ==
    /\ Cardinality(E2) = Cardinality(E1)
    /\ \A e \in E1 \ T : e \in E2
    /\ \A e \in T : \E e2 \in E2 :
          [e2 EXCEPT !.last_used_at = e.last_used_at, !.use_count = e.use_count] = e

\* C9: handling a capture of bytes already stored changes at most
\* last_used_at and use_count of the Entry with that hash, and handling
\* set_clipboard{id} changes at most those two fields of the Entry with that
\* id; every other field, every other Entry and all Content are unchanged.  No
\* step changes the mime_type of an Entry, and set_clipboard publishes the
\* stored mime_type.
C9_TouchFrame ==
    [][ /\ \A e \in entries, e2 \in entries' : e2.id = e.id => e2.mime_type = e.mime_type
        /\ (ClipboardStep /\ ByHash(entries, Sha256Hex(Head(clipboard_rx).content)) # {}) =>
              /\ TouchFrame(entries, entries',
                            ByHash(entries, Sha256Hex(Head(clipboard_rx).content)))
              /\ UNCHANGED << content, seq >>
        /\ (IpcStep /\ Head(ipc_rx).request.type = "set_clipboard") =>
              /\ TouchFrame(entries, entries', ById(entries, Head(ipc_rx).request.id))
              /\ UNCHANGED << content, seq >>
              /\ wl_copy' # wl_copy =>
                    \E e \in ById(entries, Head(ipc_rx).request.id) :
                        wl_copy'.mime_type = e.mime_type ]_vars

\* bytes were captured twice and then re-published while a second, pinned
\* Entry existed
C9_Witness ==
    /\ wl_copy.status = "ok"
    /\ Cardinality(entries) = 2
    /\ \E e \in entries : e.use_count = 2 /\ e.pinned = 0

\* C10: when set_clipboard{id} is handled and no store statement fails: if no
\* Entry has the id the response is not_found and the publisher is not run;
\* if an Entry has the id the publisher is run with the stored bytes and the
\* stored mime_type; if the publisher fails the response is clipboard_error
\* and the Entry is unchanged; if it succeeds the response is ok and the
\* Entry's use_count is one more.
C10_SetClipboard ==
    [][ (IpcStep /\ Head(ipc_rx).request.type = "set_clipboard" /\ ~trace'.fault) =>
          LET id == Head(ipc_rx).request.id
              hit == ById(entries, id)
              ran == wl_copy'.n = wl_copy.n + 1
          IN /\ hit = {} => (NewReply.response = RespNotFound(id) /\ wl_copy' = wl_copy)
             /\ hit # {} =>
                   /\ ran
                   /\ \E e \in hit : wl_copy'.mime_type = e.mime_type
                   /\ \E c \in ContentOf(content, id) : wl_copy'.data = c.data
             /\ (ran /\ wl_copy'.status # "ok") =>
                   (NewReply.response = RespError("clipboard_error") /\ entries' = entries)
             /\ (ran /\ wl_copy'.status = "ok") =>
                   /\ NewReply.response = RespOk
                   /\ \A e \in hit : \E e2 \in entries' :
                         e2.id = id /\ e2.use_count = e.use_count + 1 ]_vars

\* C6: whenever a response is written on a connection it is one response,
\* and it is the response to the request read at the same position: the kth
\* response written is either the reply the coordinator sent for the kth
\* line read, of a type that request has, or the invalid_request answer to
\* the kth line, which did not decode.
C6_NthResponse ==
    [][ \A c \in Conns :
          conn'[c].nwritten # conn[c].nwritten =>
              /\ conn'[c].nwritten = conn[c].nwritten + 1
              /\ \/ \E r \in oneshot \ oneshot' :
                       /\ r.tx = [ c |-> c, n |-> conn'[c].nwritten ]
                       /\ conn'[c].nread = conn[c].nread
                       /\ r.response.type \in
                             CASE r.req = "ping" -> { "pong" }
                               [] r.req = "get_status" -> { "status", "error" }
                               [] r.req = "get_content" -> { "content", "error" }
                               [] OTHER -> { "ok", "history", "error" }
                 \/ /\ oneshot' = oneshot
                    /\ ipc_rx' = ipc_rx
                    /\ conn'[c].nread = conn'[c].nwritten
                    /\ conn'[c].nread = conn[c].nread + 1 ]_vars

\* two responses have been written on one connection while a request of the
\* other connection is with the coordinator and a capture has been stored
C6_Witness ==
    /\ conn[1].nwritten = 2
    /\ conn[2].pending # {}
    /\ seq = 1

\* C11: when get_content{id}, delete_entry{id} or set_pinned{id, ..} is
\* handled and no store call fails, the response is not_found iff no Entry
\* has the id, and then the store is unchanged; otherwise the response is
\* content (get_content) or ok; after delete_entry is answered ok no Entry
\* has the id, and the id is one the store has already assigned.
C11_NotFoundIff ==
    [][ (IpcStep /\ ~trace'.fault
           /\ Head(ipc_rx).request.type \in { "get_content", "delete_entry", "set_pinned" }) =>
          LET type == Head(ipc_rx).request.type
              id == Head(ipc_rx).request.id
              hit == ById(entries, id)
              r == NewReply.response
          IN /\ (r = RespNotFound(id)) <=> (hit = {})
             /\ hit = {} => UNCHANGED << entries, content, seq >>
             /\ hit # {} => r.type = IF type = "get_content" THEN "content" ELSE "ok"
             /\ (type = "delete_entry" /\ r = RespOk) =>
                   (ById(entries', id) = {} /\ id <= seq') ]_vars

C13_StoreFailureReported ==
    [][ (IpcStep /\ trace'.fault) =>
          NewReply.response = RespError("database_error") ]_vars

\* C14: when get_history is handled and no store call fails, the response
\* lists Entries in descending created_at, all of them Entries the search
\* selects, and total_count is the number of Entries the search selects,
\* whatever limit and offset are: every Entry when search is absent or
\* empty, the Entries whose preview matches when it is not empty.
C14_HistoryListing ==
    [][ (IpcStep /\ ~trace'.fault /\ Head(ipc_rx).request.type = "get_history") =>
          LET req == Head(ipc_rx).request
              r == NewReply.response
              selected == IF IsSome(req.search) /\ Unwrap(req.search) # <<>>
                          THEN { e \in entries : FtsMatch(e.preview, Unwrap(req.search)) }
                          ELSE entries
          IN /\ r.type = "history"
             /\ r.total_count = Cardinality(selected)
             /\ \A i, j \in 1..Len(r.entries) :
                   i < j => r.entries[i].created_at >= r.entries[j].created_at
             /\ \A i \in 1..Len(r.entries) :
                   r.entries[i] \in { RowToEntry(e) : e \in selected }
             /\ \A l \in { None, Some(0), Some(1) }, o \in { None, Some(1) } :
                   \A h \in GetHistory(entries, l, o, req.search, "none") :
                       h.total = r.total_count ]_vars

\* C15: when get_history with limit = 0 is handled and no store call fails,
\* the response is a history with no entries whose total_count is the
\* total_count the same request with limit 1 gets on the same store.
C15_LimitZero ==
    [][ (IpcStep /\ ~trace'.fault /\ Head(ipc_rx).request.type = "get_history"
           /\ Head(ipc_rx).request.limit = Some(0)) =>
          LET req == Head(ipc_rx).request
              r == NewReply.response
          IN /\ r.type = "history"
             /\ r.entries = <<>>
             /\ \A h \in GetHistory(entries, Some(1), req.offset, req.search, "none") :
                   h.ok /\ h.total = r.total_count ]_vars

\* a history with no entries and total_count 2 has been sent: with two
\* Entries at most, only limit = 0 lists none of two
C15_Witness ==
    \E r \in oneshot :
        /\ r.req = "get_history"
        /\ r.response.type = "history"
        /\ r.response.entries = <<>>
        /\ r.response.total_count = 2

\* C16: in every reachable state, for every id and flag, handling
\* set_pinned{id, pinned} (no store call failing) and then handling the same
\* request again gives the second time the response of the first and leaves
\* the store as the first left it.
C16_SetPinnedTwice ==
    \A id \in Ids, b \in BOOLEAN :
        LET req == Unwrap(DecodeRequest(set_pinned(id, b)))
        IN \A o1 \in IpcOutcomes(entries, content, req, now, wl_copy, "none", "ok", 0) :
              \A o2 \in IpcOutcomes(o1.entries, o1.content, req, now, o1.wl_copy,
                                    "none", "ok", 0) :
                  /\ o2.entries = o1.entries
                  /\ o2.content = o1.content
                  /\ o2.response = o1.response

\* two requests have been handled and answered ok, the second a set_pinned,
\* and the one Entry ever stored is there and pinned
C16_Witness ==
    /\ conn[1].nwritten = 1
    /\ conn[1].last = RespOk
    /\ \E r \in oneshot : r.req = "set_pinned" /\ r.response = RespOk
    /\ seq = 1
    /\ \E e \in entries : e.pinned = 1

\* C17: no step lowers the largest id assigned so far (seq); every Entry's
\* id is at most seq; an Entry that a step adds has an id above every id
\* assigned before, so never the id of an Entry removed earlier; and an id
\* that stays in the store stays with the same content_hash and created_at.
C17_IdsNeverReused ==
    [][ /\ seq' >= seq
        /\ \A e \in entries : e.id <= seq
        /\ \A e \in entries' :
              /\ e.id \notin IdsOf(entries) => (e.id > seq /\ e.id = seq')
              /\ \A x \in entries :
                    x.id = e.id => (x.content_hash = e.content_hash
                                    /\ x.created_at = e.created_at) ]_vars

\* the second Entry inserted has id 2 and is alone in the store: the Entry
\* with id 1 has been removed
C17_Witness ==
    /\ trace.op = "stored"
    /\ seq = 2
    /\ IdsOf(entries) = { 2 }

\* C18: in every reachable state every Entry has created_at <= last_used_at
\* and use_count >= 1.
C18_UsedSinceCreated ==
    \A e \in entries : e.created_at <= e.last_used_at /\ e.use_count >= 1

\* an Entry has been inserted, captured again and re-published, the last use
\* a second after the insert
C18_Witness ==
    /\ wl_copy.status = "ok"
    /\ \E e \in entries : e.use_count = 3 /\ e.created_at < e.last_used_at

\* C19: handling get_history, get_content, get_status or ping, handling any
\* request that is answered not_found, and answering a line with
\* invalid_request leave all Entry and Content rows (and the id sequence)
\* unchanged; the store changes only when the coordinator handles a capture
\* event or a set_clipboard, set_pinned, delete_entry or clear_history.
C19_ReadsChangeNothing ==
    [][ /\ (IpcStep /\ (\/ Head(ipc_rx).request.type \in
                             { "get_history", "get_content", "get_status", "ping" }
                        \/ NewReply.response.code = "not_found")) =>
              UNCHANGED << entries, content, seq >>
        /\ (\E c \in Conns : /\ conn'[c].nwritten # conn[c].nwritten
                             /\ conn'[c].last = RespError("invalid_request")) =>
              UNCHANGED << entries, content, seq >>
        /\ << entries, content, seq >>' # << entries, content, seq >> =>
              \/ ClipboardStep
              \/ IpcStep /\ Head(ipc_rx).request.type \in
                    { "set_clipboard", "set_pinned", "delete_entry", "clear_history" }
      ]_vars

\* with an Entry stored, a get_history has been answered with it and a
\* get_content has been handled and found it
C19_Witness ==
    /\ conn[1].last.type = "history"
    /\ Len(conn[1].last.entries) = 1
    /\ \E r \in oneshot : r.req = "get_content" /\ r.response.type = "content"
    /\ entries # {}

\* the newline bytes in a text
Newlines(tok) == Cardinality({ i \in 1..Len(tok) : tok[i] = 10 })

\* no value text of a JSON object, or of an object in one of its arrays,
\* holds a newline byte
NoNewlineIn(obj) ==
    \A i \in 1..Len(obj) :
        /\ Newlines(obj[i].tok) = 0
        /\ \A j \in 1..Len(obj[i].arr) :
              \A k \in 1..Len(obj[i].arr[j]) : Newlines(obj[i].arr[j][k].tok) = 0

\* C20: encoding any Request and decoding the record gives back an equal
\* Request, and the same for any Response, for every variant and every
\* combination of present and absent optional fields; the record is the JSON
\* text, which holds no newline byte, followed by exactly one newline byte.
C20_RoundTrip ==
    /\ codec.phase \in { "encoded", "decoded" } =>
          /\ codec.record.tail = <<10>>
          /\ NoNewlineIn(codec.record.json)
    /\ (codec.phase = "decoded" /\ codec.of = "request") =>
          codec.request_back = Some(codec.request)
    /\ (codec.phase = "decoded" /\ codec.of = "response") =>
          codec.response_back = Some(codec.response)

\* a listing request with limit absent, offset present and a search text that
\* holds a newline, a quote and a backslash has been encoded and decoded
C20_Witness ==
    /\ codec.phase = "decoded"
    /\ codec.of = "request"
    /\ codec.request.type = "get_history"
    /\ codec.request.limit = None
    /\ codec.request.offset = Some(3)
    /\ codec.request.search = Some(<<97, 10, 34, 92, 110>>)
    /\ codec.request_back = Some(codec.request)
    /\ Len(codec.record.json) = 3

\* the least-recently-used order of the claim: by last_used_at, then by id
LruBefore(a, b) ==
    \/ a.last_used_at < b.last_used_at
    \/ a.last_used_at = b.last_used_at /\ a.id < b.id
\* id and last_used_at of the non-pinned rows
LruKeys(E) == { [ id |-> e.id, last_used_at |-> e.last_used_at ] : e \in NonPinned(E) }

\* C25: a sweep that finds N > max_entries non-pinned Entries deletes exactly
\* the N - max_entries of them that come first by last_used_at, ties broken
\* by smallest id, and otherwise deletes nothing; so of captures made within
\* one clock second the one with the smallest id is removed.
C25_SweepOrder ==
    [][ (ClipboardStep /\ trace'.op = "stored") =>
          LET swept == LruKeys(entries) \cup { [ id |-> seq', last_used_at |-> now ] }
              kept == LruKeys(entries')
              removed == swept \ kept
              N == Cardinality(swept)
          IN /\ Cardinality(removed) =
                    IF N > config.max_entries THEN N - config.max_entries ELSE 0
             /\ \A r \in removed, k \in kept : LruBefore(r, k) ]_vars

\* C26: with max_age_days > 0, after a sweep no non-pinned Entry created
\* before now - max_age_days * 86400 is left in the store (the age rule,
\* applied before the count rule).
C26_AgeRule ==
    [][ (ClipboardStep /\ trace'.op = "stored" /\ config.max_age_days > 0) =>
          \A e \in NonPinned(entries') :
              e.created_at >= now - config.max_age_days * SecondsPerDay ]_vars

\* C27: a sweep runs after every successful insert and also on a periodic
\* tick: when an IPC request (an unpin) has left more than max_entries
\* non-pinned Entries, a sweep eventually runs and brings the number back to
\* at most max_entries, without any new Entry being inserted.
C27_PeriodicSweep ==
    (trace.src = "ipc" /\ ~trace.fault
        /\ Cardinality(NonPinned(entries)) > config.max_entries)
      ~> (Cardinality(NonPinned(entries)) <= config.max_entries)

\* the selection an event of the channel was drained from, when the
\* selections announced so far differ pairwise
SelectionOf(event) ==
    CHOOSE i \in 1..Len(monitor.sels) :
        monitor.sels[i] = [ content |-> event.content, mime_type |-> event.mime_type ]
DistinctSelections ==
    \A i, j \in 1..Len(monitor.sels) : monitor.sels[i] = monitor.sels[j] => i = j

\* C28: capture events reach the coordinator in the order of the selection
\* events: when the coordinator handles the event of a selection, no
\* selection announced before it still has its event to come (its drain
\* thread still running with content to send).
C28_CaptureOrder ==
    [][ (ClipboardStep /\ DistinctSelections) =>
          \A i \in monitor.drains :
              i < SelectionOf(Head(clipboard_rx)) => monitor.sels[i].content = <<>> ]_vars

\* C29: once every capture event of the selections announced so far has been
\* handled, with max_entries >= 1 and the bytes of the last selection passing
\* admission, an Entry with the hash of those bytes is stored.
C29_LatestRecorded ==
    LET last == monitor.sels[Len(monitor.sels)]
    IN (/\ monitor.sels # <<>>
        /\ monitor.drains = {}
        /\ clipboard_rx = <<>>
        /\ config.max_entries >= 1
        /\ ~TooLarge(Len(last.content), config)
        /\ ~TooSmall(Len(last.content), config)) =>
          \E e \in entries : e.content_hash = Sha256Hex(last.content)

\* C30: a drain thread with an event to send never waits: when the channel
\* is full its send drops the oldest queued event and enqueues the new one.
C30_DropOldest ==
    /\ [](\A i \in monitor.drains : running => ENABLED DrainThread(i))
    /\ [][ \A i \in monitor.drains :
              (DrainThread(i) /\ running /\ monitor.sels[i].content # <<>>
                 /\ Len(clipboard_rx) = ClipboardCap) =>
                  /\ Len(clipboard_rx') = ClipboardCap
                  /\ SubSeq(clipboard_rx', 1, ClipboardCap - 1) = Tail(clipboard_rx)
                  /\ clipboard_rx'[ClipboardCap].content = monitor.sels[i].content ]_vars

\* the process has ended with a non-zero exit status
NonZeroExit == exit_status # None /\ exit_status # Some(0)

\* C21: when the connection to the compositor fails at start-up, or the
\* compositor does not advertise the data-control manager, the process ends
\* with a non-zero exit status.
C21_NoDataControlExits ==
    (monitor.st = "exited" /\ monitor.err \in { "connect", "roundtrip", "no_manager" })
      ~> NonZeroExit

\* C22: when serve cannot remove the stale socket file or cannot bind the
\* socket, the process ends with a non-zero exit status: the coordinator
\* does not go on handling events with no IPC server listening.
C22_BindFailureExits ==
    /\ (server = "failed") ~> NonZeroExit
    /\ [][ server = "failed" => ~ClipboardStep ]_vars

\* C23: once the termination signal has been observed the coordinator
\* handles no capture event and no IPC request and sends no reply; the
\* process ends, and only with status 0; when it has ended every connection
\* is closed, those with a forwarded and unanswered request included.
C23_Termination ==
    /\ [][ ~running =>
             /\ ~running'
             /\ ~ClipboardStep /\ ~IpcStep
             /\ UNCHANGED << entries, content, seq, wl_copy >>
             /\ oneshot' \subseteq oneshot ]_vars
    /\ [](exit_status # None =>
             /\ exit_status = Some(0)
             /\ ~running
             /\ \A c \in Conns : conn[c].st = "closed")
    /\ (~running ~> exit_status = Some(0))

\* the process has ended while a request of connection 1 was queued for the
\* coordinator, forwarded and never answered
C23_Witness ==
    /\ exit_status = Some(0)
    /\ ipc_rx # <<>>
    /\ Head(ipc_rx).response_tx.c = 1
    /\ conn[1].pending # {}
    /\ conn[1].nwritten = 0
    /\ conn[1].st = "closed"

\* the content hashes of the selections announced so far
AnnouncedHashes == { Sha256Hex(monitor.sels[i].content) : i \in 1..Len(monitor.sels) }

\* C24: after the capture thread has exited the daemon keeps serving IPC:
\* a request forwarded to the coordinator is answered (unless the daemon is
\* terminated first); no selection is announced any more, and an Entry
\* recorded from then on is that of a selection announced before the exit
\* whose event was still being drained or queued.
C24_ServesAfterMonitorExit ==
    /\ \A c \in Conns :
          (monitor.st = "exited" /\ running /\ conn[c].pending # {})
            ~> (conn[c].pending = {} \/ ~running)
    /\ [][ monitor.st = "exited" =>
             /\ monitor'.st = "exited"
             /\ monitor'.sels = monitor.sels
             /\ \A e \in entries' :
                   e.id \notin IdsOf(entries) =>
                       ClipboardStep /\ e.content_hash \in AnnouncedHashes ]_vars

\* the capture thread has exited on a dispatch error, an Entry is stored and
\* a ping of connection 1 has been answered
C24_Witness ==
    /\ monitor.st = "exited"
    /\ monitor.err = "dispatch"
    /\ running
    /\ entries # {}
    /\ conn[1].nwritten = 1
    /\ conn[1].last = RespPong

\* C24 as stated: after the capture thread has exited no new Entry is
\* recorded.
C24_NoEntryAfterExit ==
    [][ monitor.st = "exited" => IdsOf(entries') \subseteq IdsOf(entries) ]_vars

\* ------------------------------------------------ the choice of a MIME
\* the capture thread dispatches a selection event that names an offer
SelectionStep ==
    /\ monitor'.last_event.event = "selection"
    /\ monitor'.last_event.id # None
    /\ monitor'.named # monitor.named

\* the MIME types of a list
TypesOf(list) == { list[i] : i \in 1..Len(list) }

\* the member of a priority list that comes first among those offered
Highest(priority, offered) ==
    priority[CHOOSE k \in 1..Len(priority) :
               /\ priority[k] \in TypesOf(offered)
               /\ \A j \in 1..(k - 1) : priority[j] \notin TypesOf(offered)]

\* the receive requests a step issues
Issued == SubSeq(monitor'.received, Len(monitor.received) + 1,
                 Len(monitor'.received))

\* C34: for every offered list, the MIME chosen is the first member of the
\* image priority list that was offered; if there is none, the first
\* member of the text priority list that was offered; if there is none,
\* the first offered MIME; none is chosen (no receive is issued) only when
\* the list is empty; and the chosen MIME is one of those offered.
C34_BestMime ==
    [][ (SelectionStep /\ monitor.current_offer # None
           /\ monitor'.last_event.log # "Failed to create pipe") =>
          LET offered == monitor.offered_mime_types
              images == TypesOf(IMAGE_MIME_PRIORITY) \cap TypesOf(offered)
              texts == TypesOf(TEXT_MIME_PRIORITY) \cap TypesOf(offered)
          IN  /\ Len(Issued) = (IF offered = <<>> THEN 0 ELSE 1)
              /\ \A i \in 1..Len(Issued) :
                   /\ Issued[i].mime_type \in TypesOf(offered)
                   /\ Issued[i].mime_type =
                        (IF images # {} THEN Highest(IMAGE_MIME_PRIORITY, offered)
                         ELSE IF texts # {} THEN Highest(TEXT_MIME_PRIORITY, offered)
                         ELSE offered[1]) ]_vars

\* an offered list with a text type ahead of two image types, the
\* lower-priority image first: image/png is requested
C34_Witness ==
    /\ monitor.offers # <<>>
    /\ monitor.offers[1].mimes = << "text/plain", "image/jpeg", "image/png" >>
    /\ monitor.received = << [ offer |-> 1, mime_type |-> "image/png" ] >>

\* --------------------------------------------- the capture state machine
\* an offer is pending: the thread remembers an offer object
CollectingMime == monitor.current_offer # None

\* C31: a selection(null) event received while an offer is pending drops
\* the collected offer: afterwards no offer is remembered (and so no
\* receive can be issued for it).
C31_NullDropsOffer ==
    [][ (monitor'.last_event = [ event |-> "selection", id |-> None, log |-> "" ]
           /\ monitor' # monitor /\ CollectingMime) =>
          monitor'.current_offer = None ]_vars

\* C32: a finished event for the device makes the capture thread log and
\* exit: once the device is finished the thread is no longer dispatching,
\* and no capture is started afterwards.
C32_FinishedExits ==
    /\ [](monitor.finished => monitor.st = "exited")
    /\ [][ monitor.finished => monitor'.sels = monitor.sels ]_vars

\* C38: on a selection event that names an offer, the receive request is
\* issued on that offer, for one of the MIME types that offer advertised;
\* an offer introduced for the primary selection is never read, so no
\* capture carries the bytes of the primary selection.
C38_ReceivesNamedOffer ==
    /\ [][ SelectionStep =>
             \A i \in 1..Len(Issued) :
                /\ Issued[i].offer = Unwrap(monitor'.last_event.id)
                /\ Issued[i].mime_type \in
                     TypesOf(monitor.offers[Unwrap(monitor'.last_event.id)].mimes)
         ]_vars
    /\ [](\A i \in 1..Len(monitor.sels) :
            monitor.sels[i].content # OfferBytes("primary"))

\* pattern.is_match(mime), tabulated over the MIME strings and patterns of
\* the model: none of the strings contains another
Ignored(mime, patterns) == mime \in patterns

\* C33: a capture whose chosen MIME type matches an entry of
\* clipboard.ignore_mime_patterns is dropped: handling it creates no Entry
\* and touches none.
C33_IgnoredMimeDropped ==
    [][ (ClipboardStep /\ Ignored(Head(clipboard_rx).mime_type,
                                  config.ignore_mime_patterns)) =>
          (entries' = entries /\ content' = content) ]_vars

\* ------------------------------------------------ more about the sweep
\* C35: with max_entries >= 1 the Entry a capture inserts is not deleted by
\* the sweep that follows the insert, also when other non-pinned Entries
\* have the last_used_at second of the new Entry.
C35_NewEntrySurvives ==
    [][ (ClipboardStep /\ trace'.op = "stored" /\ config.max_entries >= 1) =>
          seq' \in IdsOf(entries') ]_vars

\* the coordinator handles set_pinned{id, false}
UnpinStep ==
    /\ IpcStep
    /\ Head(ipc_rx).request.type = "set_pinned"
    /\ ~Head(ipc_rx).request.pinned

\* C36: the number of non-pinned Entries is at most max_entries after a
\* capture that inserts (its sweep has run); it is raised by at most one by
\* set_pinned{id, false}, after which it may exceed max_entries; no other
\* capture event or request raises it (events whose handling a store
\* failure cuts short aside).
C36_BoundUnlessUnpinned ==
    [][ ((ClipboardStep \/ IpcStep) /\ ~trace'.fault) =>
          LET before == Cardinality(NonPinned(entries))
              after == Cardinality(NonPinned(entries'))
          IN  IF ClipboardStep /\ trace'.op = "stored"
              THEN after <= config.max_entries
              ELSE IF UnpinStep THEN after <= before + 1
              ELSE after <= before ]_vars

\* set_pinned has just been handled and answered ok, and with
\* max_entries = 1 the two Entries captured are both non-pinned (one was
\* captured and pinned, the other captured, and the first then unpinned)
C36_Witness ==
    /\ trace = [ src |-> "ipc", op |-> "", fault |-> FALSE ]
    /\ \E r \in oneshot : r.req = "set_pinned" /\ r.response.type = "ok"
    /\ seq = 2 /\ Cardinality(entries) = 2
    /\ \A e \in entries : e.pinned = 0
    /\ config.max_entries = 1

\* C36 as stated: after the coordinator has handled a capture event or an
\* IPC request, whichever it was, without a store failure, at most
\* max_entries Entries are non-pinned.
C36_BoundAfterEveryEvent ==
    [][ ((ClipboardStep \/ IpcStep) /\ ~trace'.fault) =>
          Cardinality(NonPinned(entries')) <= config.max_entries ]_vars

\* ------------------------------------------------------- re-publishing
\* C39: re-publishing never adds history: once set_clipboard has answered
\* ok, the capture event of the re-published selection is handled as a
\* touch of an existing Entry and inserts none, whatever requests are
\* handled before it.  (In SpecRepublish every capture event queued after a
\* successful run of wl-copy is that of a re-published selection.)
C39_RepublishAddsNothing ==
    [][ (ClipboardStep /\ wl_copy.status = "ok"
           /\ Head(clipboard_rx).content = wl_copy.data) =>
          (trace'.op = "duplicate" /\ IdsOf(entries') = IdsOf(entries)) ]_vars

\* ------------------------------------------------ one event at a time
\* C37: the coordinator handles one event to completion: while it is
\* between the find_by_hash, insert and sweep statements of a capture
\* event it takes no event from either channel and does not act on the
\* termination signal; so the store a request is handled on holds no
\* inserted Entry whose sweep is still to run (at most max_entries Entries
\* are non-pinned when no request unpins).
C37_OneEventAtATime ==
    /\ [][ (IpcStep \/ ClipboardStep \/ running' # running) =>
             coord.pc = "select" ]_vars
    /\ [][ IpcStep =>
             Cardinality(NonPinned(entries)) <= config.max_entries ]_vars

\* the coordinator has inserted an Entry and not yet run the sweep, the
\* store holds more than max_entries non-pinned Entries, a request is
\* waiting in the IPC channel and the next capture event in the other
C37_Witness ==
    /\ coord.pc = "cleanup"
    /\ Cardinality(NonPinned(entries)) > config.max_entries
    /\ ipc_rx # <<>>
    /\ clipboard_rx # <<>>
    /\ running

\* --------------------------------------------------------- starvation
\* C40: while the coordinator runs, every request a connection task has
\* forwarded is eventually handled and its response written to that
\* connection, also when capture events keep arriving and the other
\* connection keeps sending requests; and the capture channel is not
\* starved either: it is empty again and again, or capture events are
\* handled again and again.
C40_NoStarvation ==
    /\ \A c \in Conns : \A n \in 1..MaxRequests :
          (running /\ conn[c].nread = n /\ conn[c].pending # {})
            ~> (~running \/ (conn[c].nwritten = n /\ conn[c].pending = {}))
    /\ \/ []<>(clipboard_rx = <<>>)
       \/ []<><<ClipboardStep>>_vars

\* a request of connection 2 waits in the IPC channel behind nothing but
\* with a capture event ready in the other channel, after an earlier
\* capture event was handled and connection 1 was answered
C40_Witness ==
    /\ conn[2].pending # {}
    /\ ipc_rx # <<>>
    /\ clipboard_rx # <<>>
    /\ trace = [ src |-> "clipboard", op |-> "too_large", fault |-> FALSE ]
    /\ conn[1].nwritten = 1

====
